---------------------------- MODULE Spec2Model ----------------------------
(***************************************************************************)
(* Model of the month schedule generators of otf-scheduler:                *)
(* apps/api/app/services/schedule_generator_v2.py (v2) and                 *)
(* apps/api/app/services/schedule_generator.py (v1). Under Spec a          *)
(* behaviour is one run of the generator the request selects, on one       *)
(* loaded input. Under DbSpec a behaviour is two requests to               *)
(* POST /generate against one database, each in its own session, from the  *)
(* range check to the commit, interleaved at every step.                   *)
(*                                                                         *)
(* Dates are day ordinals of a calendar in which ordinal 0 is a Sunday, so *)
(* the stored day_of_week of a demand row (0=Sun..6=Sat) is d % 7 and      *)
(* Python's date.weekday() (0=Mon..6=Sun) is (d + 6) % 7.                  *)
(* Times of day are time objects <<hour, minute>>; _to_minutes converts.   *)
(*                                                                         *)
(* Python floats: the soft score and the weekly-hour thresholds are        *)
(* modelled with exact rational arithmetic on unbounded naturals (digit    *)
(* sequences, TLC integers being 32 bit); the one place where the code     *)
(* truncates a float back to an integer, int(hours * 60) in the weekend    *)
(* preference swap, is modelled with IEEE-754 binary64 rounding.           *)
(***************************************************************************)
EXTENDS Integers, Sequences, FiniteSets, TLC

(***************************************************************************)
(* Configuration constants of schedule_generator_v2.py                     *)
(***************************************************************************)
MAX_SHIFT_LENGTH_MINUTES == 600
MIN_REST_BETWEEN_SHIFTS_MINUTES == 720
MAX_CONSECUTIVE_DAYS == 6
FT_MIN_HOURS_PER_WEEK == 30
WEIGHT_WEEKEND_PREF_MATCH == 100
WEIGHT_WEEKEND_PREF_OPPOSITE == 50
WEIGHT_WEEKEND_PREF_EITHER == 5
WEIGHT_AVOID_CLOPEN == 20
WEIGHT_CREATE_CLOPEN == 40
WEIGHT_EXTRA_CONSECUTIVE_DAY == 15

(***************************************************************************)
(* Unbounded naturals: little-endian digit sequences in base BigBase,      *)
(* without leading (last) zero digits; <<>> is zero.                       *)
(***************************************************************************)
BigBase == 32768

RECURSIVE BigOfInt(_)
BigOfInt(n) == IF n = 0 THEN <<>> ELSE <<n % BigBase>> \o BigOfInt(n \div BigBase)

RECURSIVE BigTrim(_)
BigTrim(a) ==
  IF Len(a) = 0 THEN a
  ELSE IF a[Len(a)] = 0 THEN BigTrim(SubSeq(a, 1, Len(a) - 1)) ELSE a

BigDigit(a, i) == IF i <= Len(a) THEN a[i] ELSE 0

RECURSIVE BigAddFrom(_, _, _, _)
BigAddFrom(a, b, i, carry) ==
  IF i > Len(a) /\ i > Len(b)
  THEN IF carry = 0 THEN <<>> ELSE <<carry>>
  ELSE LET s == BigDigit(a, i) + BigDigit(b, i) + carry
       IN  <<s % BigBase>> \o BigAddFrom(a, b, i + 1, s \div BigBase)

BigAdd(a, b) == BigAddFrom(a, b, 1, 0)

\* a - b for a >= b
RECURSIVE BigSubFrom(_, _, _, _)
BigSubFrom(a, b, i, borrow) ==
  IF i > Len(a) THEN <<>>
  ELSE LET s == BigDigit(a, i) - BigDigit(b, i) - borrow
       IN  IF s < 0 THEN <<s + BigBase>> \o BigSubFrom(a, b, i + 1, 1)
                    ELSE <<s>> \o BigSubFrom(a, b, i + 1, 0)

BigSub(a, b) == BigTrim(BigSubFrom(a, b, 1, 0))

\* a * k for a digit 0 <= k < BigBase
RECURSIVE BigMulDigitFrom(_, _, _, _)
BigMulDigitFrom(a, k, i, carry) ==
  IF i > Len(a)
  THEN IF carry = 0 THEN <<>> ELSE <<carry>>
  ELSE LET p == a[i] * k + carry
       IN  <<p % BigBase>> \o BigMulDigitFrom(a, k, i + 1, p \div BigBase)

BigMulDigit(a, k) == IF k = 0 THEN <<>> ELSE BigMulDigitFrom(a, k, 1, 0)

RECURSIVE BigMul(_, _)
BigMul(a, b) ==
  IF Len(b) = 0 \/ Len(a) = 0 THEN <<>>
  ELSE LET rest == BigMul(a, Tail(b))
       IN  BigAdd(BigMulDigit(a, b[1]), IF Len(rest) = 0 THEN <<>> ELSE <<0>> \o rest)

\* a * n for an integer 0 <= n < 2^31
BigMulInt(a, n) == BigMul(a, BigOfInt(n))

RECURSIVE BigLessFrom(_, _, _)
BigLessFrom(a, b, i) ==
  IF i = 0 THEN FALSE
  ELSE IF a[i] # b[i] THEN a[i] < b[i] ELSE BigLessFrom(a, b, i - 1)

BigLess(a, b) ==
  IF Len(a) # Len(b) THEN Len(a) < Len(b) ELSE BigLessFrom(a, b, Len(a))

RECURSIVE BigDivDigitFrom(_, _, _, _)
\* long division of a by a digit 0 < k < BigBase, from the top digit down;
\* returns the quotient digits (little-endian) below position i and, as the
\* last element, the remainder
BigDivDigitFrom(a, k, i, rem) ==
  IF i = 0 THEN <<rem>>
  ELSE LET cur == rem * BigBase + a[i]
       IN  BigDivDigitFrom(a, k, i - 1, cur % k) \o <<cur \div k>>

BigDivDigit(a, k) ==
  LET r == BigDivDigitFrom(a, k, Len(a), 0)
  IN  [quot |-> BigTrim(Tail(r)), rem |-> r[1]]

RECURSIVE Pow2(_)
Pow2(n) == IF n = 0 THEN 1 ELSE 2 * Pow2(n - 1)

RECURSIVE IntBitLen(_)
IntBitLen(n) == IF n = 0 THEN 0 ELSE 1 + IntBitLen(n \div 2)

\* floor(a / 2^k)
BigShr(a, k) ==
  LET q == k \div 15
      r == k % 15
      d == IF q >= Len(a) THEN <<>> ELSE SubSeq(a, q + 1, Len(a))
  IN  IF r = 0 THEN d ELSE BigDivDigit(d, Pow2(r)).quot

\* a * 2^k
BigShl(a, k) ==
  IF Len(a) = 0 THEN <<>>
  ELSE [i \in 1..(k \div 15) |-> 0] \o BigMulDigit(a, Pow2(k % 15))

(***************************************************************************)
(* IEEE-754 binary64 values of magnitude below 2^16 that are zero or at    *)
(* least 2^-22: [neg, mag] with value (-1)^neg * mag * 2^-FloatUnit, mag   *)
(* having at most 53 significant bits. Round to nearest, ties to even.     *)
(***************************************************************************)
FloatUnit == 75
FloatMantissa == 53

\* rounds mag (+ a positive fraction below one unit when sticky) to 53 bits
FloatRound(mag, sticky) ==
  LET L == IF Len(mag) = 0 THEN 0 ELSE 15 * (Len(mag) - 1) + IntBitLen(mag[Len(mag)])
      k == L - FloatMantissa
  IN  IF k <= 0 THEN mag
      ELSE LET q    == BigShr(mag, k)
               rem  == BigSub(mag, BigShl(q, k))
               half == BigShl(<<1>>, k - 1)
               odd  == BigDigit(q, 1) % 2 = 1
               up   == BigLess(half, rem) \/ (rem = half /\ (sticky \/ odd))
           IN  BigShl(IF up THEN BigAdd(q, <<1>>) ELSE q, k)

\* float(n) / float(k) for integers n and 0 < k < BigBase
FloatDivInt(n, k) ==
  LET a  == IF n < 0 THEN 0 - n ELSE n
      qr == BigDivDigit(BigShl(BigOfInt(a), FloatUnit), k)
  IN  [neg |-> n < 0, mag |-> FloatRound(qr.quot, qr.rem # 0)]

FloatAdd(x, y) ==
  IF x.neg = y.neg THEN [neg |-> x.neg, mag |-> FloatRound(BigAdd(x.mag, y.mag), FALSE)]
  ELSE IF x.mag = y.mag THEN [neg |-> FALSE, mag |-> <<>>]
  ELSE IF BigLess(x.mag, y.mag)
       THEN [neg |-> y.neg, mag |-> FloatRound(BigSub(y.mag, x.mag), FALSE)]
       ELSE [neg |-> x.neg, mag |-> FloatRound(BigSub(x.mag, y.mag), FALSE)]

\* x * float(k) for an integer 0 <= k < BigBase
FloatMulInt(x, k) == [neg |-> x.neg, mag |-> FloatRound(BigMulDigit(x.mag, k), FALSE)]

\* int(x): truncation toward zero
FloatToInt(x) ==
  LET w == BigShr(x.mag, FloatUnit)
      t == BigDigit(w, 1) + BigBase * BigDigit(w, 2)
  IN  IF x.neg THEN 0 - t ELSE t

\* _minutes_to_hours
MinutesToHoursFloat(minutes) == FloatDivInt(minutes, 60)

(***************************************************************************)
(* Helper functions                                                        *)
(***************************************************************************)
\* time object <<hour, minute>> to minutes since midnight
ToMinutes(t) == t[1] * 60 + t[2]

\* minutes since midnight back to a time object (the write to the database)
ToTime(m) == <<m \div 60, m % 60>>

Overlaps(a_start_m, a_end_m, b_start_m, b_end_m) ==
  a_start_m < b_end_m /\ b_start_m < a_end_m

\* date.weekday(): 0 = Monday .. 6 = Sunday
PyWeekday(d) == (d + 6) % 7

\* calendar day of week in the convention of the demand rows, 0 = Sunday
DowOf(d) == d % 7

IsWeekend(day_of_week) == day_of_week = 0 \/ day_of_week = 6
IsSaturday(day_of_week) == day_of_week = 6
IsSunday(day_of_week) == day_of_week = 0

\* the label test is over the labels of the model whose upper-cased text
\* contains "AM", then those that contain "PM"
GetShiftType(label, start_m, end_m) ==
  IF label \in {"AM_A", "AM_B"} THEN "open"
  ELSE IF label \in {"PM_A", "PM_B"} THEN "close"
  ELSE IF start_m \div 60 < 6 THEN "open"
  ELSE IF end_m \div 60 >= 20 THEN "close"
  ELSE "mid"

AssignedShift(shift_date, start_m, end_m, label) ==
  [shift_date |-> shift_date, start_m |-> start_m, end_m |-> end_m, label |-> label]

\* AssignedShift.overlaps_with
OverlapsWith(self, other_date, other_start_m, other_end_m) ==
  LET days_diff == IF self.shift_date < other_date THEN other_date - self.shift_date
                   ELSE self.shift_date - other_date
  IN  IF days_diff > 1 THEN FALSE
      ELSE IF days_diff = 0
           THEN Overlaps(self.start_m, self.end_m, other_start_m, other_end_m)
      ELSE IF self.shift_date < other_date
           THEN self.end_m > other_start_m
           ELSE other_end_m > self.start_m

SeqToSet(q) == {q[i] : i \in 1..Len(q)}

RECURSIVE FoldLeft(_, _, _)
\* a for loop over the list s that updates acc:
\* Op(... Op(Op(acc, s[1]), s[2]) ..., s[Len(s)]). The list is taken by halves,
\* the first half finished before the second is begun, so that the depth of
\* evaluation is logarithmic in Len(s)
FoldLeft(Op(_, _), acc, s) ==
  IF Len(s) = 0 THEN acc
  ELSE IF Len(s) = 1 THEN Op(acc, s[1])
  ELSE LET h    == Len(s) \div 2
           left == FoldLeft(Op, acc, SubSeq(s, 1, h))
       IN  IF left = left THEN FoldLeft(Op, left, SubSeq(s, h + 1, Len(s))) ELSE left

RECURSIVE FirstIndex(_, _, _)
\* the first i in lo..hi with Test(i), 0 if there is none; indices after the
\* first are not tested
FirstIndex(Test(_), lo, hi) ==
  IF lo > hi THEN 0
  ELSE IF lo = hi THEN (IF Test(lo) THEN lo ELSE 0)
  ELSE LET m == (lo + hi) \div 2
           l == FirstIndex(Test, lo, m)
       IN  IF l # 0 THEN l ELSE FirstIndex(Test, m + 1, hi)

\* list.insert(p - 1, x); p = 0 appends
InsertAt(q, p, x) ==
  IF p = 0 THEN Append(q, x) ELSE SubSeq(q, 1, p - 1) \o <<x>> \o SubSeq(q, p, Len(q))

\* [x for x in q if x \notin drop]
SeqFilter(q, drop) == SelectSeq(q, LAMBDA x : x \notin drop)

(***************************************************************************)
(* A dict date -> list of AssignedShift (one employee's entry of           *)
(* shifts_by_date_by_emp) is the list of its items [date, shifts] in       *)
(* insertion order.                                                        *)
(***************************************************************************)
DictKeys(dict) == {dict[i].date : i \in 1..Len(dict)}

DictGet(dict, d) ==
  IF d \in DictKeys(dict)
  THEN dict[CHOOSE i \in 1..Len(dict) : dict[i].date = d].shifts
  ELSE <<>>

\* dict.setdefault(d, []).append(x)
DictAppend(dict, d, x) ==
  IF d \in DictKeys(dict)
  THEN [i \in 1..Len(dict) |->
          IF dict[i].date = d THEN [dict[i] EXCEPT !.shifts = Append(@, x)] ELSE dict[i]]
  ELSE Append(dict, [date |-> d, shifts |-> <<x>>])

\* dict[d] = [s for s in dict.get(d, []) if not (s.start_m == s_m and s.end_m == e_m)]
DictRemoveSet(dict, d, s_m, e_m) ==
  LET keep(q) == SeqFilter(q, {x \in SeqToSet(q) : x.start_m = s_m /\ x.end_m = e_m})
  IN  IF d \in DictKeys(dict)
      THEN [i \in 1..Len(dict) |->
              IF dict[i].date = d THEN [dict[i] EXCEPT !.shifts = keep(@)] ELSE dict[i]]
      ELSE Append(dict, [date |-> d, shifts |-> <<>>])

\* the same, guarded by "if d in dict"
DictRemoveIfPresent(dict, d, s_m, e_m) ==
  IF d \in DictKeys(dict) THEN DictRemoveSet(dict, d, s_m, e_m) ELSE dict

\* [s for s in shifts if not (s.shift_date == d and s.start_m == s_m and s.end_m == e_m)]
ListRemove(shifts, d, s_m, e_m) ==
  SeqFilter(shifts, {x \in SeqToSet(shifts) :
                       x.shift_date = d /\ x.start_m = s_m /\ x.end_m = e_m})

(***************************************************************************)
(* State of one run of generate_month_schedule                             *)
(***************************************************************************)
VARIABLES
  demand,                  \* rows loaded from shift_instances, ordered by (date, start)
  employees,               \* active employees of the company, in load order
  profiles,                \* employee -> EmployeeProfile
  avail_by_emp_dow,        \* employee -> day of week -> list of <<start, end>>
  unavail_by_emp_dow,      \* employee -> day of week -> list of <<start, end>>
  off_dates_by_emp,        \* employee -> set of dates
  pto_dates_by_emp,        \* employee -> set of dates
  generator_version,       \* "v1" or "v2", the generator the request selects
  pc,                      \* position of the run in generate_month_schedule
  loop,                    \* loop indices and counters of the current phase
  demand_sorted,           \* demand ordered by candidate count
  scheduled_shifts,        \* list of [eid, shift_date, dow, label, s_m, e_m]
  assigned_shifts_by_emp,  \* employee -> list of AssignedShift
  minutes_by_emp,          \* employee -> assigned minutes
  shifts_by_date_by_emp,   \* employee -> (date -> list of AssignedShift)
  ft_under_target,         \* list of the repair pass / of the fill pass
  pt_over_ideal,           \* list of the repair pass
  assigned_shifts_map,     \* (date, start, end) -> count, of the fill pass
  audit_candidate,         \* schedule_audit_candidate rows of the run, by key
  audit_shift,             \* schedule_audit_shift rows of the run, by key
  picked_log,              \* shift key -> the list picked by the greedy step
  scheduled_rows,          \* scheduled_shifts rows added by the run
  assigned_by_emp_day,     \* set of <<employee, date>> of the v1 generator
  run,                     \* the call's arguments, its ScheduleRun and its open transaction
  db,                      \* the committed tables of the database
  other,                   \* the session of the other request, while it does not execute
  history                  \* history: whether a session has executed while the other was
                           \* in progress, and the size of each run's target after its commit

inputs == <<demand, employees, profiles, avail_by_emp_dow, unavail_by_emp_dow,
            off_dates_by_emp, pto_dates_by_emp, generator_version, run>>

database == <<db, other, history>>

tracking == <<scheduled_shifts, assigned_shifts_by_emp, minutes_by_emp,
              shifts_by_date_by_emp>>

audit == <<audit_candidate, audit_shift, picked_log>>

vars == <<demand, employees, profiles, avail_by_emp_dow, unavail_by_emp_dow,
          off_dates_by_emp, pto_dates_by_emp, pc, loop, demand_sorted,
          scheduled_shifts, assigned_shifts_by_emp, minutes_by_emp,
          shifts_by_date_by_emp, ft_under_target, pt_over_ideal,
          assigned_shifts_map, audit_candidate, audit_shift, picked_log,
          scheduled_rows, generator_version, assigned_by_emp_day, run, db,
          other, history>>

(***************************************************************************)
(* The database. A statement of a session reads the committed tables and   *)
(* the session's own writes (READ COMMITTED, the isolation level of a      *)
(* PostgreSQL engine created without one). The writes of a session - its   *)
(* ScheduleRun, the rows its DELETE removed, its audit upserts and its     *)
(* added ScheduledShift rows - stay in the session until db.commit(), and  *)
(* the db.close() of get_db drops them when the call raises.               *)
(***************************************************************************)
\* a DELETE that matches nothing
OverwriteMatchesNone(table, r) == {}

\* a DELETE without the date range
OverwriteMatchesAnyDate(table, r) == {x \in table : x.studio_id = r.studio_id}

\* a DELETE without the studio
OverwriteMatchesAnyStudio(table, r) ==
  {x \in table : x.shift_date >= r.month_start /\ x.shift_date <= r.month_end}

\* the rows matched by delete(ScheduledShift).where(studio_id, shift_date in range)
OverwriteMatches(table, r) ==
  {x \in table : /\ x.studio_id = r.studio_id
                 /\ x.shift_date >= r.month_start
                 /\ x.shift_date <= r.month_end}

\* no range check
InvalidRangeNever(r) == FALSE

\* the range check of the router and of the generator
InvalidRange(r) == r.month_end < r.month_start

\* a commit that stores the new rows and forgets the DELETE of the transaction
CommitWithoutDelete(d, r, rows, candidates, shifts) ==
  [d EXCEPT
     !.schedule_runs = @ \cup {[schedule_run_id |-> r.schedule_run_id,
                                studio_id |-> r.studio_id,
                                month_start |-> r.month_start,
                                month_end |-> r.month_end]},
     !.scheduled_shifts =
        @ \cup {[scheduled_shift_id |-> <<r.schedule_run_id, i>>,
                 schedule_run_id |-> r.schedule_run_id,
                 studio_id   |-> r.studio_id,
                 employee_id |-> rows[i].employee_id,
                 shift_date  |-> rows[i].shift_date,
                 day_of_week |-> rows[i].day_of_week,
                 label       |-> rows[i].label,
                 start_time  |-> rows[i].start_time,
                 end_time    |-> rows[i].end_time] : i \in 1..Len(rows)},
     !.schedule_audit_candidate = (r.schedule_run_id :> candidates) @@ @,
     !.schedule_audit_shift = (r.schedule_run_id :> shifts) @@ @]

\* db.commit() of the session of run r, which added the ScheduledShift rows
\* `rows' and upserted the audit rows `candidates' and `shifts'
Commit(d, r, rows, candidates, shifts) ==
  [d EXCEPT
     !.schedule_runs = @ \cup {[schedule_run_id |-> r.schedule_run_id,
                                studio_id |-> r.studio_id,
                                month_start |-> r.month_start,
                                month_end |-> r.month_end]},
     !.scheduled_shifts =
        {x \in @ : x.scheduled_shift_id \notin r.deleted} \cup
        {[scheduled_shift_id |-> <<r.schedule_run_id, i>>,
          schedule_run_id |-> r.schedule_run_id,
          studio_id   |-> r.studio_id,
          employee_id |-> rows[i].employee_id,
          shift_date  |-> rows[i].shift_date,
          day_of_week |-> rows[i].day_of_week,
          label       |-> rows[i].label,
          start_time  |-> rows[i].start_time,
          end_time    |-> rows[i].end_time] : i \in 1..Len(rows)},
     !.schedule_audit_candidate = (r.schedule_run_id :> candidates) @@ @,
     !.schedule_audit_shift = (r.schedule_run_id :> shifts) @@ @]

\* a close that commits the open transaction
CloseCommits(d, r) == Commit(d, r, <<>>, <<>>, <<>>)

\* db.close() of get_db after the call has raised: the open transaction of run r
\* is rolled back
Close(d, r) == d

(***************************************************************************)
(* PHASE A: hard constraints. asg and sbd are the run's                    *)
(* assigned_shifts_by_emp and shifts_by_date_by_emp at the moment of the   *)
(* call.                                                                   *)
(***************************************************************************)
\* a check that never reports a PTO date
PtoReasonsNone(eid, shift_date) == <<>>

PtoReasons(eid, shift_date) ==
  IF shift_date \in pto_dates_by_emp[eid] THEN <<"pto">> ELSE <<>>

\* a check that never reports a time-off date
TimeOffReasonsNone(eid, shift_date) == <<>>

TimeOffReasons(eid, shift_date) ==
  IF shift_date \in off_dates_by_emp[eid] THEN <<"time_off">> ELSE <<>>

\* a check that never reports missing coverage
AvailabilityReasonsNone(eid, dow, start_m, end_m) == <<>>

AvailabilityReasons(eid, dow, start_m, end_m) ==
  LET av == avail_by_emp_dow[eid][dow]
  IN  IF ~(\E i \in 1..Len(av) : av[i][1] <= start_m /\ av[i][2] >= end_m)
      THEN <<"no_availability_coverage">> ELSE <<>>

UnavailabilityReasons(eid, dow, start_m, end_m) ==
  LET un == unavail_by_emp_dow[eid][dow]
  IN  IF \E i \in 1..Len(un) : Overlaps(start_m, end_m, un[i][1], un[i][2])
      THEN <<"weekly_unavailable_overlap">> ELSE <<>>

\* a check that never reports an overlap
OverlapReasonsNone(existing, shift_date, start_m, end_m) == <<>>

OverlapReasons(existing, shift_date, start_m, end_m) ==
  IF \E i \in 1..Len(existing) : OverlapsWith(existing[i], shift_date, start_m, end_m)
  THEN <<"shift_overlap">> ELSE <<>>

ShiftLengthReasons(start_m, end_m) ==
  IF end_m - start_m > MAX_SHIFT_LENGTH_MINUTES
  THEN <<"shift_too_long_" \o ToString(end_m - start_m) \o "min">> ELSE <<>>

\* the tags one existing shift adds in the minimum rest loop
RestReasonsOne(existing_shift, shift_date, start_m, end_m) ==
  LET days_diff == shift_date - existing_shift.shift_date
  IN  IF days_diff = 0
      THEN IF existing_shift.end_m < start_m
           THEN IF start_m - existing_shift.end_m < MIN_REST_BETWEEN_SHIFTS_MINUTES
                THEN <<"insufficient_rest_same_day">> ELSE <<>>
           ELSE IF start_m < existing_shift.start_m
           THEN IF existing_shift.start_m - end_m < MIN_REST_BETWEEN_SHIFTS_MINUTES
                THEN <<"insufficient_rest_same_day">> ELSE <<>>
           ELSE <<>>
      ELSE IF days_diff = 1
      THEN IF (24 * 60 - existing_shift.end_m) + start_m < MIN_REST_BETWEEN_SHIFTS_MINUTES
           THEN <<"insufficient_rest_cross_day">> ELSE <<>>
      ELSE IF days_diff = -1
      THEN IF (24 * 60 - end_m) + existing_shift.start_m < MIN_REST_BETWEEN_SHIFTS_MINUTES
           THEN <<"insufficient_rest_cross_day">> ELSE <<>>
      ELSE <<>>

RECURSIVE RestReasons(_, _, _, _)
RestReasons(existing, shift_date, start_m, end_m) ==
  IF Len(existing) = 0 THEN <<>>
  ELSE RestReasonsOne(existing[1], shift_date, start_m, end_m)
         \o RestReasons(Tail(existing), shift_date, start_m, end_m)

RECURSIVE DaysBefore(_, _)
DaysBefore(dates, d) == IF (d - 1) \in dates THEN 1 + DaysBefore(dates, d - 1) ELSE 0

RECURSIVE DaysAfter(_, _)
DaysAfter(dates, d) == IF (d + 1) \in dates THEN 1 + DaysAfter(dates, d + 1) ELSE 0

\* consecutive_count of the walk around shift_date over the keys of shifts_by_date
ConsecutiveCount(dates, shift_date) ==
  1 + DaysBefore(dates, shift_date) + DaysAfter(dates, shift_date)

\* a check that never reports a run of consecutive days
ConsecutiveReasonsNone(shifts_by_date, shift_date) == <<>>

ConsecutiveReasons(shifts_by_date, shift_date) ==
  LET dates == DictKeys(shifts_by_date)
  IN  IF dates # {} /\ ConsecutiveCount(dates, shift_date) > MAX_CONSECUTIVE_DAYS
      THEN <<"too_many_consecutive_days_" \o ToString(ConsecutiveCount(dates, shift_date))>>
      ELSE <<>>

WeekendReasons(existing, dow) ==
  IF IsWeekend(dow)
     /\ \E i \in 1..Len(existing) :
          LET existing_dow == PyWeekday(existing[i].shift_date)
          IN  IsWeekend(existing_dow) /\ existing_dow # dow
  THEN <<"already_has_weekend_shift">> ELSE <<>>

\* the list of reasons; the shift is valid iff the list is empty
check_hard_constraints(asg, sbd, eid, shift_date, dow, start_m, end_m) ==
  PtoReasons(eid, shift_date)
    \o TimeOffReasons(eid, shift_date)
    \o AvailabilityReasons(eid, dow, start_m, end_m)
    \o UnavailabilityReasons(eid, dow, start_m, end_m)
    \o OverlapReasons(asg[eid], shift_date, start_m, end_m)
    \o ShiftLengthReasons(start_m, end_m)
    \o RestReasons(asg[eid], shift_date, start_m, end_m)
    \o ConsecutiveReasons(sbd[eid], shift_date)
    \o WeekendReasons(asg[eid], dow)

Valid(asg, sbd, eid, shift_date, dow, start_m, end_m) ==
  Len(check_hard_constraints(asg, sbd, eid, shift_date, dow, start_m, end_m)) = 0

(***************************************************************************)
(* PHASE A: scoring. A score is the exact rational (pos - neg) / ScoreDen, *)
(* pos and neg unbounded naturals. With weeks_in_month = 4.33 and minutes  *)
(* m, weekly hours are m / 259.8 = 5 m / 1299, so every product of the     *)
(* code is a multiple of 1 / ScoreDen, ScoreDen = 2^2 3^3 5 433^2.         *)
(* Reason tags are written without their formatted numbers.                *)
(***************************************************************************)
ScoreDen == 101244060
WeekNum == 1299        \* weekly hours = 5 * minutes / WeekNum

ScoreZero == [pos |-> <<>>, neg |-> <<>>, reasons |-> <<>>]

ScorePlus(sc, numerator, tag) ==
  [pos |-> BigAdd(sc.pos, numerator), neg |-> sc.neg, reasons |-> Append(sc.reasons, tag)]

ScoreMinus(sc, numerator, tag) ==
  [pos |-> sc.pos, neg |-> BigAdd(sc.neg, numerator), reasons |-> Append(sc.reasons, tag)]

ScorePoints(k) == BigMulInt(BigOfInt(k), ScoreDen)

\* a.score > b.score
ScoreGT(a, b) == BigLess(BigAdd(b.pos, a.neg), BigAdd(a.pos, b.neg))

\* the sum of two scores (the reasons are not summed)
ScoreSum(a, b) == [pos |-> BigAdd(a.pos, b.pos), neg |-> BigAdd(a.neg, b.neg), reasons |-> <<>>]

IsFullTime(profile) == profile.employment_type = "full_time"
IsPartTime(profile) == profile.employment_type = "part_time"

WeekendPrefScore(sc, profile, dow) ==
  LET pref == profile.weekend_preference
  IN  IF ~IsWeekend(dow) THEN sc
      ELSE IF pref = "saturday" /\ IsSaturday(dow)
           THEN ScorePlus(sc, ScorePoints(WEIGHT_WEEKEND_PREF_MATCH), "weekend_pref_match_sat")
      ELSE IF pref = "sunday" /\ IsSunday(dow)
           THEN ScorePlus(sc, ScorePoints(WEIGHT_WEEKEND_PREF_MATCH), "weekend_pref_match_sun")
      ELSE IF pref = "either"
           THEN ScorePlus(sc, ScorePoints(WEIGHT_WEEKEND_PREF_EITHER), "weekend_pref_either")
      ELSE IF pref = "saturday" /\ IsSunday(dow)
           THEN ScoreMinus(sc, ScorePoints(WEIGHT_WEEKEND_PREF_OPPOSITE), "weekend_pref_opposite_sat_wants_sun")
      ELSE IF pref = "sunday" /\ IsSaturday(dow)
           THEN ScoreMinus(sc, ScorePoints(WEIGHT_WEEKEND_PREF_OPPOSITE), "weekend_pref_opposite_sun_wants_sat")
      ELSE sc

HourTargetScore(sc, profile, start_m, end_m, current_minutes) ==
  LET d      == end_m - start_m
      after5 == 5 * (current_minutes + d)     \* WeekNum * weekly_hours_after
  IN  IF IsFullTime(profile)
      THEN IF after5 < FT_MIN_HOURS_PER_WEEK * WeekNum
           THEN \* hours_under * 20 * shift_hours * (1 + hours_under) * 2
                LET A == FT_MIN_HOURS_PER_WEEK * WeekNum - after5
                IN  ScorePlus(sc, BigMulInt(BigMulInt(BigMulInt(BigOfInt(40), A), d), WeekNum + A),
                              "ft_hours_needed")
           ELSE LET O == after5 - FT_MIN_HOURS_PER_WEEK * WeekNum
                IN  IF O > 5 * WeekNum
                    THEN \* (hours_over - 5) * 4 * shift_hours
                         ScoreMinus(sc, BigMulInt(BigMulInt(BigOfInt(5196), O - 5 * WeekNum), d),
                                    "ft_hours_over")
                    ELSE sc
      ELSE IF IsPartTime(profile) /\ profile.ideal_hours_weekly # 0
      THEN LET ideal5 == WeekNum * profile.ideal_hours_weekly
           IN  IF after5 < ideal5
               THEN \* 5 * min(shift_hours, (ideal - current_weekly_hours) * 4.33)
                    LET toward == IF 5 * d <= ideal5 - 5 * current_minutes
                                  THEN 5 * d ELSE ideal5 - 5 * current_minutes
                    IN  ScorePlus(sc, BigMulInt(BigOfInt(1687401), toward), "pt_toward_ideal")
               ELSE IF after5 > ideal5
                    THEN \* hours_over * 15 * shift_hours
                         ScoreMinus(sc, BigMulInt(BigMulInt(BigOfInt(19485), after5 - ideal5), d),
                                    "pt_over_ideal")
                    ELSE sc
      ELSE sc

RECURSIVE ClopenOver(_, _)
ClopenOver(sc, prev_shifts) ==
  IF Len(prev_shifts) = 0 THEN sc
  ELSE LET p == prev_shifts[1]
           n == IF GetShiftType(p.label, p.start_m, p.end_m) = "close"
                THEN ScoreMinus(sc, ScorePoints(WEIGHT_CREATE_CLOPEN), "creates_clopen")
                ELSE ScorePlus(sc, ScorePoints(WEIGHT_AVOID_CLOPEN), "avoids_clopen")
       IN  ClopenOver(n, Tail(prev_shifts))

ClopenScore(sc, shifts_by_date, shift_date, label, start_m, end_m) ==
  IF GetShiftType(label, start_m, end_m) = "open" /\ (shift_date - 1) \in DictKeys(shifts_by_date)
  THEN ClopenOver(sc, DictGet(shifts_by_date, shift_date - 1))
  ELSE sc

ConsecutiveScore(sc, shifts_by_date, shift_date) ==
  LET dates == DictKeys(shifts_by_date)
      n     == ConsecutiveCount(dates, shift_date)
  IN  IF dates # {} /\ n > 5
      THEN ScoreMinus(sc, ScorePoints((n - 5) * WEIGHT_EXTRA_CONSECUTIVE_DAY),
                      "consecutive_days_" \o ToString(n))
      ELSE sc

calculate_score(sbd, eid, shift_date, dow, start_m, end_m, label, current_minutes) ==
  LET s1 == WeekendPrefScore(ScoreZero, profiles[eid], dow)
      s2 == HourTargetScore(s1, profiles[eid], start_m, end_m, current_minutes)
      s3 == ClopenScore(s2, sbd[eid], shift_date, label, start_m, end_m)
  IN  ConsecutiveScore(s3, sbd[eid], shift_date)

(***************************************************************************)
(* The tracking state of a run as one value:                               *)
(* [sched, asg, sbd, mins] = scheduled_shifts, assigned_shifts_by_emp,     *)
(* shifts_by_date_by_emp, minutes_by_emp.                                  *)
(***************************************************************************)
Tracking == [sched |-> scheduled_shifts, asg |-> assigned_shifts_by_emp,
             sbd |-> shifts_by_date_by_emp, mins |-> minutes_by_emp]

SetTracking(T) ==
  /\ scheduled_shifts' = T.sched
  /\ assigned_shifts_by_emp' = T.asg
  /\ shifts_by_date_by_emp' = T.sbd
  /\ minutes_by_emp' = T.mins

ScheduledShift(eid, shift_date, dow, label, s_m, e_m) ==
  [eid |-> eid, shift_date |-> shift_date, dow |-> dow, label |-> label,
   s_m |-> s_m, e_m |-> e_m]

\* scheduled_shifts.append(...) and the "Update tracking" block after it
AddAssignment(T, eid, shift_date, dow, label, s_m, e_m) ==
  LET a == AssignedShift(shift_date, s_m, e_m, label)
  IN  [sched |-> Append(T.sched, ScheduledShift(eid, shift_date, dow, label, s_m, e_m)),
       asg   |-> [T.asg EXCEPT ![eid] = Append(@, a)],
       sbd   |-> [T.sbd EXCEPT ![eid] = DictAppend(@, shift_date, a)],
       mins  |-> [T.mins EXCEPT ![eid] = @ + (e_m - s_m)]]

RowStart(row) == ToMinutes(row.start_time)
RowEnd(row) == ToMinutes(row.end_time)

RowValid(T, eid, row) ==
  Valid(T.asg, T.sbd, eid, row.shift_date, row.day_of_week, RowStart(row), RowEnd(row))

RowReasons(T, eid, row) ==
  check_hard_constraints(T.asg, T.sbd, eid, row.shift_date, row.day_of_week,
                         RowStart(row), RowEnd(row))

RowScore(T, eid, row) ==
  calculate_score(T.sbd, eid, row.shift_date, row.day_of_week, RowStart(row),
                  RowEnd(row), row.label, T.mins[eid])

(***************************************************************************)
(* PHASE A: candidate counts and the order of the demand                   *)
(***************************************************************************)
CandidateCount(T, row) ==
  Cardinality({i \in 1..Len(employees) : RowValid(T, employees[i], row)})

\* an insertion that keeps the load order
InsertByCountLast(sorted, x, T) == Append(sorted, x)

RECURSIVE InsertByCount(_, _, _)
\* stable: x goes before the first row with a strictly larger count
InsertByCount(sorted, x, T) ==
  IF Len(sorted) = 0 THEN <<x>>
  ELSE IF CandidateCount(T, x) < CandidateCount(T, sorted[1])
       THEN <<x>> \o sorted
       ELSE <<sorted[1]>> \o InsertByCount(Tail(sorted), x, T)

RECURSIVE SortByCount(_, _, _)
\* sorted(demand, key = shift_candidate_counts[...])
SortByCount(sorted, rest, T) ==
  IF Len(rest) = 0 THEN sorted
  ELSE SortByCount(InsertByCount(sorted, rest[1], T), Tail(rest), T)

CountCandidates ==
  /\ pc = "count"
  /\ demand_sorted' = SortByCount(<<>>, demand, Tracking)
  /\ pc' = "greedy"
  /\ loop' = [i |-> 1]
  /\ UNCHANGED <<inputs, database, assigned_by_emp_day, tracking, ft_under_target, pt_over_ideal,
                 assigned_shifts_map, audit_candidate, audit_shift, picked_log,
                 scheduled_rows>>

(***************************************************************************)
(* PHASE A: main assignment loop, one shift of demand_sorted per step      *)
(***************************************************************************)
\* the eligible employees with their score, in employee order
CandidatesFrom(emps, T, row) ==
  LET eligible == SelectSeq(emps, LAMBDA e : RowValid(T, e, row))
  IN  [i \in 1..Len(eligible) |->
         [eid |-> eligible[i], score |-> RowScore(T, eligible[i], row)]]

\* all hard reasons of the ineligible employees, the input of rejection_counter
RejectionsFrom(emps, T, row) ==
  FoldLeft(LAMBDA tags, e : IF RowValid(T, e, row) THEN tags
                            ELSE tags \o RowReasons(T, e, row),
           <<>>, emps)

\* an insertion that keeps the employee order
InsertByScoreLast(sorted, c) == Append(sorted, c)

\* stable descending: c goes before the first candidate with a strictly lower score
InsertByScore(sorted, c) ==
  InsertAt(sorted, FirstIndex(LAMBDA i : ScoreGT(c.score, sorted[i].score), 1, Len(sorted)), c)

\* candidates.sort(key = score, reverse = True)
SortByScore(sorted, rest) == FoldLeft(InsertByScore, sorted, rest)

\* candidates[:need]
\* a pick that takes every candidate
PickTopAll(candidates, need) == candidates

\* a pick that leaves one eligible candidate out
PickTopButLast(candidates, need) ==
  SubSeq(candidates, 1, IF need < Len(candidates) THEN need ELSE Len(candidates) - 1)

PickTop(candidates, need) ==
  SubSeq(candidates, 1, IF need < Len(candidates) THEN need ELSE Len(candidates))

CommitPicked(T, picked, row) ==
  FoldLeft(LAMBDA T1, c : AddAssignment(T1, c.eid, row.shift_date, row.day_of_week,
                                        row.label, RowStart(row), RowEnd(row)),
           T, picked)

NoneValue == "None"

CountTags(tags) ==
  [t \in SeqToSet(tags) |-> Cardinality({i \in 1..Len(tags) : tags[i] = t})]

\* the row _upsert_candidate_audit writes
CandidateAuditRow(eligible, hard_reasons, selected, minutes_so_far, score) ==
  [eligible         |-> eligible,
   rejection_reason |-> IF eligible THEN NoneValue
                        ELSE IF Len(hard_reasons) > 0 THEN hard_reasons[1] ELSE "unknown",
   selected         |-> selected,
   minutes_so_far   |-> minutes_so_far,
   hard_reasons     |-> hard_reasons,
   score            |-> [pos |-> score.pos, neg |-> score.neg],
   soft_reasons     |-> score.reasons]

\* a conflict key without the employee
CandidateKeyNoEmployee(row, eid) == <<row.shift_date, row.label, row.start_time, row.end_time>>

CandidateKey(row, eid) == <<row.shift_date, row.label, row.start_time, row.end_time, eid>>
ShiftKey(row) == <<row.shift_date, row.label, row.start_time, row.end_time>>

\* the candidate audit loop of one shift, evaluated on the state T after the commit
CandidateAuditOf(T, row, picked, eid) ==
  IF RowValid(T, eid, row)
  THEN CandidateAuditRow(TRUE, RowReasons(T, eid, row),
                         \E i \in 1..Len(picked) : picked[i].eid = eid,
                         T.mins[eid], RowScore(T, eid, row))
  ELSE CandidateAuditRow(FALSE, RowReasons(T, eid, row), FALSE, T.mins[eid], ScoreZero)

UpsertCandidates(table, emps, T, row, picked) ==
  FoldLeft(LAMBDA tab, e : (CandidateKey(row, e) :> CandidateAuditOf(T, row, picked, e)) @@ tab,
           table, emps)

\* a shift audit row whose missing_count is need minus the candidate count
ShiftAuditRowFromCandidates(need, assigned_count, eligible_count, rejections) ==
  [required_count    |-> need,
   assigned_count    |-> assigned_count,
   candidate_count   |-> eligible_count,
   missing_count     |-> need - eligible_count,
   rejection_summary |-> CountTags(rejections)]

\* the row _upsert_shift_audit writes
ShiftAuditRow(need, assigned_count, eligible_count, rejections) ==
  [required_count    |-> need,
   assigned_count    |-> assigned_count,
   candidate_count   |-> eligible_count,
   missing_count     |-> IF need - assigned_count > 0 THEN need - assigned_count ELSE 0,
   rejection_summary |-> CountTags(rejections)]

GreedyShift ==
  /\ pc = "greedy"
  /\ loop.i <= Len(demand_sorted)
  /\ LET row        == demand_sorted[loop.i]
         T          == Tracking
         candidates == SortByScore(<<>>, CandidatesFrom(employees, T, row))
         picked     == PickTop(candidates, row.required_count)
         T2         == CommitPicked(T, picked, row)
     IN  /\ SetTracking(T2)
         /\ audit_candidate' = UpsertCandidates(audit_candidate, employees, T2, row, picked)
         /\ audit_shift' = (ShiftKey(row) :>
                              ShiftAuditRow(row.required_count, Len(picked), Len(candidates),
                                            RejectionsFrom(employees, T, row))) @@ audit_shift
         /\ picked_log' = (ShiftKey(row) :> [i \in 1..Len(picked) |-> picked[i].eid]) @@ picked_log
  /\ loop' = [i |-> loop.i + 1]
  /\ UNCHANGED <<inputs, database, assigned_by_emp_day, pc, demand_sorted, ft_under_target, pt_over_ideal,
                 assigned_shifts_map, scheduled_rows>>

(***************************************************************************)
(* PHASE B: repair pass. Weekly hours are minutes / 60 / 4.33; a           *)
(* comparison of weekly hours is written on integers, multiplied out:      *)
(*   weekly < 30             as  100 * minutes < 779400                    *)
(*   weekly > ideal          as  100 * minutes > 25980 * ideal             *)
(*   weekly >= ideal * 0.7   as  1000 * minutes >= 181860 * ideal          *)
(*   weekly <= 40            as  100 * minutes <= 1039200                  *)
(* The sort keys hours_needed and hours_over are kept times 6000.          *)
(***************************************************************************)
max_repair_swaps == 100

UnderTarget(minutes) == 100 * minutes < FT_MIN_HOURS_PER_WEEK * 25980
AtMost40Weekly(minutes) == 100 * minutes <= (FT_MIN_HOURS_PER_WEEK + 10) * 25980

\* stable descending by the field key
InsertByKeyDesc(sorted, x) ==
  InsertAt(sorted, FirstIndex(LAMBDA i : x.key > sorted[i].key, 1, Len(sorted)), x)

SortByKeyDesc(sorted, rest) == FoldLeft(InsertByKeyDesc, sorted, rest)

\* (eid, hours_needed) of the full-time employees under target, in profile order
FtUnderFrom(emps, mins) ==
  LET under == SelectSeq(emps, LAMBDA e : IsFullTime(profiles[e]) /\ UnderTarget(mins[e]))
  IN  [k \in 1..Len(under) |->
         [eid |-> under[k],
          key |-> FT_MIN_HOURS_PER_WEEK * 25980 - 100 * mins[under[k]]]]

\* (eid, hours_over) of the part-time employees over their ideal, in profile order
PtOverFrom(emps, mins) ==
  LET over == SelectSeq(emps, LAMBDA e :
                /\ ~IsFullTime(profiles[e]) /\ IsPartTime(profiles[e])
                /\ profiles[e].ideal_hours_weekly # 0
                /\ 100 * mins[e] > 25980 * profiles[e].ideal_hours_weekly)
  IN  [k \in 1..Len(over) |->
         [eid |-> over[k],
          key |-> 100 * mins[over[k]] - 25980 * profiles[over[k]].ideal_hours_weekly]]

RepairBegin ==
  /\ pc = "greedy"
  /\ loop.i > Len(demand_sorted)
  /\ ft_under_target' = SortByKeyDesc(<<>>, FtUnderFrom(employees, minutes_by_emp))
  /\ pt_over_ideal' = SortByKeyDesc(<<>>, PtOverFrom(employees, minutes_by_emp))
  /\ pc' = "repair"
  /\ loop' = [ft |-> 1, pt |-> 1, swap_count |-> 0]
  /\ UNCHANGED <<inputs, database, assigned_by_emp_day, tracking, demand_sorted, assigned_shifts_map, audit,
                 scheduled_rows>>

\* the indices from i on of the shifts of pt_eid in scheduled_shifts, with their
\* duration as key
PtShiftsFrom(sched, pt_eid, i) ==
  LET held == SelectSeq([k \in 1..(Len(sched) - i + 1) |-> k + i - 1],
                        LAMBDA k : sched[k].eid = pt_eid)
  IN  [n \in 1..Len(held) |->
         [i |-> held[n], key |-> sched[held[n]].e_m - sched[held[n]].s_m]]

\* guards that only ask the validator
RepairAcceptsValid(T, ft_eid, pt_eid, i) ==
  Valid(T.asg, T.sbd, ft_eid, T.sched[i].shift_date, T.sched[i].dow,
        T.sched[i].s_m, T.sched[i].e_m)

\* guards that never accept a reassignment
RepairAcceptsNever(T, ft_eid, pt_eid, i) == FALSE

\* the guards of one reassignment of scheduled_shifts[i] from pt_eid to ft_eid
RepairAccepts(T, ft_eid, pt_eid, i) ==
  LET sh == T.sched[i]
      d  == sh.e_m - sh.s_m
      pt_ideal == profiles[pt_eid].ideal_hours_weekly
  IN  /\ Valid(T.asg, T.sbd, ft_eid, sh.shift_date, sh.dow, sh.s_m, sh.e_m)
      /\ pt_ideal # 0
      /\ 1000 * (T.mins[pt_eid] - d) >= 181860 * pt_ideal
      /\ T.mins[ft_eid] + d > T.mins[ft_eid]
      /\ AtMost40Weekly(T.mins[ft_eid] + d)

RECURSIVE FirstAccepted(_, _, _, _)
\* the first index of pt_shifts the guards accept, 0 if none
FirstAccepted(T, ft_eid, pt_eid, pt_shifts) ==
  IF Len(pt_shifts) = 0 THEN 0
  ELSE IF RepairAccepts(T, ft_eid, pt_eid, pt_shifts[1].i) THEN pt_shifts[1].i
  ELSE FirstAccepted(T, ft_eid, pt_eid, Tail(pt_shifts))

\* a reassignment that moves every shift of pt_eid
RepairReassignAll(T, i, ft_eid, pt_eid) ==
  [T EXCEPT !.sched = [k \in 1..Len(T.sched) |->
                         IF T.sched[k].eid = pt_eid
                         THEN [T.sched[k] EXCEPT !.eid = ft_eid] ELSE T.sched[k]]]

\* "Swap the shift" and the tracking updates of the repair pass
RepairReassign(T, i, ft_eid, pt_eid) ==
  LET sh == T.sched[i]
      a  == AssignedShift(sh.shift_date, sh.s_m, sh.e_m, sh.label)
  IN  [sched |-> [T.sched EXCEPT ![i] = [@ EXCEPT !.eid = ft_eid]],
       mins  |-> [T.mins EXCEPT ![ft_eid] = @ + (sh.e_m - sh.s_m),
                                ![pt_eid] = @ - (sh.e_m - sh.s_m)],
       asg   |-> [T.asg EXCEPT ![ft_eid] = Append(@, a),
                               ![pt_eid] = ListRemove(@, sh.shift_date, sh.s_m, sh.e_m)],
       sbd   |-> [T.sbd EXCEPT ![ft_eid] = DictAppend(@, sh.shift_date, a),
                               ![pt_eid] = DictRemoveIfPresent(@, sh.shift_date, sh.s_m, sh.e_m)]]

RepairPending ==
  /\ loop.ft <= Len(ft_under_target)
  /\ loop.pt <= Len(pt_over_ideal)
  /\ loop.swap_count < max_repair_swaps

\* one (under-target, over-ideal) pair of the two nested loops
RepairStep ==
  /\ pc = "repair"
  /\ RepairPending
  /\ LET ft_eid == ft_under_target[loop.ft].eid
         pt_eid == pt_over_ideal[loop.pt].eid
         T      == Tracking
         found  == FirstAccepted(T, ft_eid, pt_eid,
                                 SortByKeyDesc(<<>>, PtShiftsFrom(T.sched, pt_eid, 1)))
         last   == loop.pt = Len(pt_over_ideal)
     IN  /\ SetTracking(IF found = 0 THEN T ELSE RepairReassign(T, found, ft_eid, pt_eid))
         /\ loop' = [ft |-> IF last THEN loop.ft + 1 ELSE loop.ft,
                     pt |-> IF last THEN 1 ELSE loop.pt + 1,
                     swap_count |-> IF found = 0 THEN loop.swap_count ELSE loop.swap_count + 1]
  /\ UNCHANGED <<inputs, database, assigned_by_emp_day, pc, demand_sorted, ft_under_target, pt_over_ideal,
                 assigned_shifts_map, audit, scheduled_rows>>

(***************************************************************************)
(* PHASE B: fill unassigned shifts with full-time employees under target,  *)
(* one demand row per step                                                 *)
(***************************************************************************)
FillKey(shift_date, s_m, e_m) == <<shift_date, s_m, e_m>>

MapGet(map, key) == IF key \in DOMAIN map THEN map[key] ELSE 0

AssignedMapFrom(map, sched) ==
  FoldLeft(LAMBDA counts, sh :
             LET key == FillKey(sh.shift_date, sh.s_m, sh.e_m)
             IN  (key :> MapGet(counts, key) + 1) @@ counts,
           map, sched)

FillBegin ==
  /\ pc = "repair"
  /\ ~RepairPending
  /\ ft_under_target' = SortByKeyDesc(<<>>, FtUnderFrom(employees, minutes_by_emp))
  /\ assigned_shifts_map' = AssignedMapFrom(<<>>, scheduled_shifts)
  /\ pc' = "fill"
  /\ loop' = [i |-> 1]
  /\ UNCHANGED <<inputs, database, assigned_by_emp_day, tracking, demand_sorted, pt_over_ideal, audit, scheduled_rows>>

RECURSIVE FillOver(_, _, _)
\* the loop over the under-target list for one demand row;
\* st = [T, unassigned, list, map]
FillOver(st, fts, row) ==
  IF Len(fts) = 0 \/ st.unassigned <= 0 THEN st
  ELSE LET ft_eid == fts[1].eid
           d      == RowEnd(row) - RowStart(row)
           key    == FillKey(row.shift_date, RowStart(row), RowEnd(row))
       IN  IF RowValid(st.T, ft_eid, row) /\ AtMost40Weekly(st.T.mins[ft_eid] + d)
           THEN LET T2 == AddAssignment(st.T, ft_eid, row.shift_date, row.day_of_week,
                                        row.label, RowStart(row), RowEnd(row))
                IN  FillOver([T          |-> T2,
                              unassigned |-> st.unassigned - 1,
                              list       |-> IF ~UnderTarget(T2.mins[ft_eid])
                                             THEN SeqFilter(st.list, {x \in SeqToSet(st.list) : x.eid = ft_eid})
                                             ELSE st.list,
                              map        |-> (key :> MapGet(st.map, key) + 1) @@ st.map],
                             Tail(fts), row)
           ELSE FillOver(st, Tail(fts), row)

FillStep ==
  /\ pc = "fill"
  /\ loop.i <= Len(demand)
  /\ LET row == demand[loop.i]
         key == FillKey(row.shift_date, RowStart(row), RowEnd(row))
         st0 == [T |-> Tracking,
                 unassigned |-> row.required_count - MapGet(assigned_shifts_map, key),
                 list |-> ft_under_target, map |-> assigned_shifts_map]
         st  == IF st0.unassigned > 0 /\ Len(ft_under_target) > 0
                THEN FillOver(st0, ft_under_target, row) ELSE st0
     IN  /\ SetTracking(st.T)
         /\ ft_under_target' = st.list
         /\ assigned_shifts_map' = st.map
  /\ IF loop.i < Len(demand)
     THEN pc' = pc /\ loop' = [i |-> loop.i + 1]
     ELSE pc' = "prefswap"
          /\ loop' = [attempt |-> 0, i |-> 1, swapped |-> FALSE, weekend_swap_count |-> 0]
  /\ UNCHANGED <<inputs, database, assigned_by_emp_day, demand_sorted, pt_over_ideal, audit, scheduled_rows>>

(***************************************************************************)
(* PHASE B: weekend preference swap pass. One step runs the scan of        *)
(* scheduled_shifts on from index loop.i up to and including its next      *)
(* exchange, or to the end of the scan.                                    *)
(***************************************************************************)
max_weekend_swaps == 50

HasSpecificPreference(profile) ==
  profile.weekend_preference # NoneValue /\ profile.weekend_preference # "either"

MatchesPreference(pref, dow) ==
  (pref = "saturday" /\ IsSaturday(dow)) \/ (pref = "sunday" /\ IsSunday(dow))

\* int(e_after * 60) with e_after = minutes/60.0 - lost/60.0 + gained/60.0
PrefSwapMinutes(minutes, lost, gained) ==
  LET h_lost == MinutesToHoursFloat(lost)
      diff   == FloatAdd(MinutesToHoursFloat(minutes), [neg |-> ~h_lost.neg, mag |-> h_lost.mag])
  IN  FloatToInt(FloatMulInt(FloatAdd(diff, MinutesToHoursFloat(gained)), 60))

\* the outer loop does not skip scheduled_shifts[i]
PrefSwapFirst(T, i) ==
  LET sh1 == T.sched[i]
  IN  /\ IsWeekend(sh1.dow)
      /\ HasSpecificPreference(profiles[sh1.eid])
      /\ ~MatchesPreference(profiles[sh1.eid].weekend_preference, sh1.dow)

\* an inner loop that exchanges on the preferences alone
PrefSwapAcceptsPreference(T, i, j) ==
  LET sh1   == T.sched[i]
      sh2   == T.sched[j]
      pref1 == profiles[sh1.eid].weekend_preference
      pref2 == profiles[sh2.eid].weekend_preference
  IN  /\ i < j
      /\ IsWeekend(sh2.dow)
      /\ HasSpecificPreference(profiles[sh2.eid])
      /\ \/ pref1 = "saturday" /\ IsSunday(sh1.dow) /\ pref2 = "sunday" /\ IsSaturday(sh2.dow)
         \/ pref1 = "sunday" /\ IsSaturday(sh1.dow) /\ pref2 = "saturday" /\ IsSunday(sh2.dow)

\* the inner loop exchanges scheduled_shifts[i] and scheduled_shifts[j]
PrefSwapAccepts(T, i, j) ==
  LET sh1   == T.sched[i]
      sh2   == T.sched[j]
      pref1 == profiles[sh1.eid].weekend_preference
      pref2 == profiles[sh2.eid].weekend_preference
      d1    == sh1.e_m - sh1.s_m
      d2    == sh2.e_m - sh2.s_m
  IN  /\ i < j
      /\ IsWeekend(sh2.dow)
      /\ HasSpecificPreference(profiles[sh2.eid])
      /\ \/ pref1 = "saturday" /\ IsSunday(sh1.dow) /\ pref2 = "sunday" /\ IsSaturday(sh2.dow)
         \/ pref1 = "sunday" /\ IsSaturday(sh1.dow) /\ pref2 = "saturday" /\ IsSunday(sh2.dow)
      /\ Valid(T.asg, T.sbd, sh1.eid, sh2.shift_date, sh2.dow, sh2.s_m, sh2.e_m)
      /\ Valid(T.asg, T.sbd, sh2.eid, sh1.shift_date, sh1.dow, sh1.s_m, sh1.e_m)
      /\ ~(IsFullTime(profiles[sh1.eid]) /\ UnderTarget(T.mins[sh1.eid] - d1 + d2))
      /\ ~(IsFullTime(profiles[sh2.eid]) /\ UnderTarget(T.mins[sh2.eid] - d2 + d1))

\* the first j from j on the inner loop accepts for i, 0 if none
PrefSwapPartner(T, i, j) ==
  FirstIndex(LAMBDA k : PrefSwapAccepts(T, i, k), j, Len(T.sched))

\* the next exchange <<i, j>> of the scan from index i on, <<0, 0>> if none
PrefSwapNext(T, i) ==
  LET first == FirstIndex(LAMBDA k : PrefSwapFirst(T, k) /\ PrefSwapPartner(T, k, k + 1) # 0,
                          i, Len(T.sched))
  IN  IF first = 0 THEN <<0, 0>> ELSE <<first, PrefSwapPartner(T, first, first + 1)>>

\* an exchange that hands the second shift to the first employee and leaves the
\* second entry as it is
PrefSwapExchangeFirst(T, i, j) ==
  [T EXCEPT !.sched = [T.sched EXCEPT ![i] = [T.sched[j] EXCEPT !.eid = T.sched[i].eid]]]

\* "Perform the swap" and the tracking updates of the preference swap pass
PrefSwapExchange(T, i, j) ==
  LET sh1  == T.sched[i]
      sh2  == T.sched[j]
      eid1 == sh1.eid
      eid2 == sh2.eid
      d1   == sh1.e_m - sh1.s_m
      d2   == sh2.e_m - sh2.s_m
      a1   == AssignedShift(sh1.shift_date, sh1.s_m, sh1.e_m, sh1.label)
      a2   == AssignedShift(sh2.shift_date, sh2.s_m, sh2.e_m, sh2.label)
  IN  [sched |-> [T.sched EXCEPT ![i] = [sh2 EXCEPT !.eid = eid1],
                                 ![j] = [sh1 EXCEPT !.eid = eid2]],
       mins  |-> [T.mins EXCEPT ![eid1] = PrefSwapMinutes(T.mins[eid1], d1, d2),
                                ![eid2] = PrefSwapMinutes(T.mins[eid2], d2, d1)],
       asg   |-> [T.asg EXCEPT
                    ![eid1] = Append(ListRemove(@, sh1.shift_date, sh1.s_m, sh1.e_m), a2),
                    ![eid2] = Append(ListRemove(@, sh2.shift_date, sh2.s_m, sh2.e_m), a1)],
       sbd   |-> [T.sbd EXCEPT
                    ![eid1] = DictAppend(DictRemoveSet(@, sh1.shift_date, sh1.s_m, sh1.e_m),
                                         sh2.shift_date, a2),
                    ![eid2] = DictAppend(DictRemoveSet(@, sh2.shift_date, sh2.s_m, sh2.e_m),
                                         sh1.shift_date, a1)]]

PrefSwapStep ==
  /\ pc = "prefswap"
  /\ LET T    == Tracking
         next == PrefSwapNext(T, loop.i)
     IN  IF next[1] # 0
         THEN /\ SetTracking(PrefSwapExchange(T, next[1], next[2]))
              /\ loop' = [loop EXCEPT !.i = next[1] + 1, !.swapped = TRUE,
                                      !.weekend_swap_count = @ + 1]
              /\ pc' = pc
         ELSE /\ UNCHANGED tracking
              /\ IF loop.swapped /\ loop.attempt + 1 < max_weekend_swaps
                    /\ loop.weekend_swap_count < max_weekend_swaps
                 THEN /\ loop' = [loop EXCEPT !.attempt = @ + 1, !.i = 1, !.swapped = FALSE]
                      /\ pc' = pc
                 ELSE /\ loop' = [i |-> 1]
                      /\ pc' = "ensure"
  /\ UNCHANGED <<inputs, database, assigned_by_emp_day, demand_sorted, ft_under_target, pt_over_ideal,
                 assigned_shifts_map, audit, scheduled_rows>>

(***************************************************************************)
(* PHASE B: ensure every employee has one weekend shift, one employee per  *)
(* step                                                                    *)
(***************************************************************************)
HasWeekend(sched, eid) ==
  \E i \in 1..Len(sched) : sched[i].eid = eid /\ IsWeekend(sched[i].dow)

\* a count that finds every shift empty
AssignedCountNone(sched, shift_date, s_m, e_m) == 0

AssignedCount(sched, shift_date, s_m, e_m) ==
  Cardinality({i \in 1..Len(sched) :
                 sched[i].shift_date = shift_date /\ sched[i].s_m = s_m /\ sched[i].e_m = e_m})

RECURSIVE FirstOpenWeekendRow(_, _, _)
\* the first weekend row of demand with room that eid can take, 0 if none
FirstOpenWeekendRow(T, eid, k) ==
  IF k > Len(demand) THEN 0
  ELSE LET row == demand[k]
       IN  IF /\ IsWeekend(row.day_of_week)
              /\ AssignedCount(T.sched, row.shift_date, RowStart(row), RowEnd(row))
                   < row.required_count
              /\ RowValid(T, eid, row)
           THEN k
           ELSE FirstOpenWeekendRow(T, eid, k + 1)

EnsureWeekendStep ==
  /\ pc = "ensure"
  /\ loop.i <= Len(employees)
  /\ LET eid == employees[loop.i]
         T   == Tracking
         k   == IF HasWeekend(T.sched, eid) THEN 0 ELSE FirstOpenWeekendRow(T, eid, 1)
     IN  SetTracking(IF k = 0 THEN T
                     ELSE AddAssignment(T, eid, demand[k].shift_date, demand[k].day_of_week,
                                        demand[k].label, RowStart(demand[k]), RowEnd(demand[k])))
  /\ IF loop.i < Len(employees)
     THEN pc' = pc /\ loop' = [i |-> loop.i + 1]
     ELSE pc' = "optimize" /\ loop' = [attempt |-> 0]
  /\ UNCHANGED <<inputs, database, assigned_by_emp_day, demand_sorted, ft_under_target, pt_over_ideal,
                 assigned_shifts_map, audit, scheduled_rows>>

(***************************************************************************)
(* PHASE B: optimization pass, one attempt per step; random.sample is the  *)
(* choice of idx1 and idx2                                                 *)
(***************************************************************************)
OPTIMIZATION_SWAP_ATTEMPTS == 200

\* the model follows the first MaxOptimizerAttempts attempts of a run
MaxOptimizerAttempts == 2

OptimizerPending ==
  /\ loop.attempt < OPTIMIZATION_SWAP_ATTEMPTS
  /\ loop.attempt < MaxOptimizerAttempts
  /\ Len(scheduled_shifts) >= 2

OptimizerValid(T, idx1, idx2) ==
  LET sh1 == T.sched[idx1]
      sh2 == T.sched[idx2]
  IN  /\ sh1.eid # sh2.eid
      /\ Valid(T.asg, T.sbd, sh2.eid, sh1.shift_date, sh1.dow, sh1.s_m, sh1.e_m)
      /\ Valid(T.asg, T.sbd, sh1.eid, sh2.shift_date, sh2.dow, sh2.s_m, sh2.e_m)

ScoreOf(T, eid, sh, minutes) ==
  calculate_score(T.sbd, eid, sh.shift_date, sh.dow, sh.s_m, sh.e_m, sh.label, minutes)

\* an optimizer that accepts every valid exchange
OptimizerImprovesAlways(T, idx1, idx2) == TRUE

OptimizerImproves(T, idx1, idx2) ==
  LET sh1 == T.sched[idx1]
      sh2 == T.sched[idx2]
      mins1_before == T.mins[sh1.eid]
      mins2_before == T.mins[sh2.eid]
      mins1_after  == mins1_before - (sh1.e_m - sh1.s_m) + (sh2.e_m - sh2.s_m)
      mins2_after  == mins2_before - (sh2.e_m - sh2.s_m) + (sh1.e_m - sh1.s_m)
      total_before == ScoreSum(ScoreOf(T, sh1.eid, sh1, mins1_before),
                               ScoreOf(T, sh2.eid, sh2, mins2_before))
      total_after  == ScoreSum(ScoreOf(T, sh1.eid, sh2, mins1_after),
                               ScoreOf(T, sh2.eid, sh1, mins2_after))
  IN  ScoreGT(total_after, total_before)

\* an exchange that hands both shifts to the second employee
OptimizerExchangeBoth(T, idx1, idx2) ==
  [T EXCEPT !.sched = [T.sched EXCEPT ![idx1] = T.sched[idx2]]]

\* "Perform swap" and the tracking updates of the optimizer
OptimizerExchange(T, idx1, idx2) ==
  LET sh1  == T.sched[idx1]
      sh2  == T.sched[idx2]
      eid1 == sh1.eid
      eid2 == sh2.eid
      d1   == sh1.e_m - sh1.s_m
      d2   == sh2.e_m - sh2.s_m
      a1   == AssignedShift(sh1.shift_date, sh1.s_m, sh1.e_m, sh1.label)
      a2   == AssignedShift(sh2.shift_date, sh2.s_m, sh2.e_m, sh2.label)
  IN  [sched |-> [T.sched EXCEPT ![idx1] = [sh1 EXCEPT !.eid = eid2],
                                 ![idx2] = [sh2 EXCEPT !.eid = eid1]],
       mins  |-> [T.mins EXCEPT ![eid1] = @ - d1 + d2, ![eid2] = @ - d2 + d1],
       asg   |-> [T.asg EXCEPT
                    ![eid1] = Append(ListRemove(@, sh1.shift_date, sh1.s_m, sh1.e_m), a2),
                    ![eid2] = Append(ListRemove(@, sh2.shift_date, sh2.s_m, sh2.e_m), a1)],
       sbd   |-> [T.sbd EXCEPT
                    ![eid1] = DictAppend(DictRemoveIfPresent(@, sh1.shift_date, sh1.s_m, sh1.e_m),
                                         sh2.shift_date, a2),
                    ![eid2] = DictAppend(DictRemoveIfPresent(@, sh2.shift_date, sh2.s_m, sh2.e_m),
                                         sh1.shift_date, a1)]]

OptimizeAttempt ==
  /\ pc = "optimize"
  /\ OptimizerPending
  /\ \E idx1, idx2 \in 1..Len(scheduled_shifts) :
       /\ idx1 # idx2
       /\ LET T == Tracking
          IN  SetTracking(IF OptimizerValid(T, idx1, idx2) /\ OptimizerImproves(T, idx1, idx2)
                          THEN OptimizerExchange(T, idx1, idx2) ELSE T)
  /\ loop' = [attempt |-> loop.attempt + 1]
  /\ UNCHANGED <<inputs, database, assigned_by_emp_day, pc, demand_sorted, ft_under_target, pt_over_ideal,
                 assigned_shifts_map, audit, scheduled_rows>>

(***************************************************************************)
(* Write to database                                                       *)
(***************************************************************************)
WriteRows ==
  /\ pc = "optimize"
  /\ ~OptimizerPending
  /\ scheduled_rows' =
       [i \in 1..Len(scheduled_shifts) |->
          [employee_id |-> scheduled_shifts[i].eid,
           shift_date  |-> scheduled_shifts[i].shift_date,
           day_of_week |-> scheduled_shifts[i].dow,
           label       |-> scheduled_shifts[i].label,
           start_time  |-> ToTime(scheduled_shifts[i].s_m),
           end_time    |-> ToTime(scheduled_shifts[i].e_m)]]
  /\ db' = Commit(db, run, scheduled_rows', audit_candidate, audit_shift)
  /\ history' = [history EXCEPT !.row_count =
                   (run.schedule_run_id :>
                      Cardinality({x \in db'.scheduled_shifts :
                                     /\ x.studio_id = run.studio_id
                                     /\ x.shift_date \in run.month_start..run.month_end})) @@ @]
  /\ pc' = "done"
  /\ UNCHANGED <<inputs, other, assigned_by_emp_day, loop, demand_sorted, tracking, ft_under_target, pt_over_ideal,
                 assigned_shifts_map, audit>>

(***************************************************************************)
(* The v1 generator (services/schedule_generator.py): one pass over the    *)
(* demand in load order, eligible employees ordered by minutes so far.     *)
(***************************************************************************)
\* an eligibility that does not look at the assignments of the day
eligibilityAnyDay(eid, d, dow, s_m, e_m) ==
  TimeOffReasons(eid, d)
  \o PtoReasons(eid, d)
  \o AvailabilityReasons(eid, dow, s_m, e_m)
  \o UnavailabilityReasons(eid, dow, s_m, e_m)

eligibility(eid, d, dow, s_m, e_m) ==
  (IF <<eid, d>> \in assigned_by_emp_day THEN <<"already_assigned_that_day">> ELSE <<>>)
  \o TimeOffReasons(eid, d)
  \o PtoReasons(eid, d)
  \o AvailabilityReasons(eid, dow, s_m, e_m)
  \o UnavailabilityReasons(eid, dow, s_m, e_m)

RECURSIVE EligibleIds(_, _)
EligibleIds(emps, row) ==
  IF Len(emps) = 0 THEN <<>>
  ELSE (IF Len(eligibility(emps[1], row.shift_date, row.day_of_week,
                           RowStart(row), RowEnd(row))) = 0
        THEN <<emps[1]>> ELSE <<>>) \o EligibleIds(Tail(emps), row)

RECURSIVE RejectionCounter(_, _)
RejectionCounter(emps, row) ==
  IF Len(emps) = 0 THEN <<>>
  ELSE eligibility(emps[1], row.shift_date, row.day_of_week, RowStart(row), RowEnd(row))
       \o RejectionCounter(Tail(emps), row)

RECURSIVE InsertByMinutes(_, _)
InsertByMinutes(sorted, eid) ==
  IF Len(sorted) = 0 THEN <<eid>>
  ELSE IF minutes_by_emp[eid] < minutes_by_emp[sorted[1]]
       THEN <<eid>> \o sorted
       ELSE <<sorted[1]>> \o InsertByMinutes(Tail(sorted), eid)

RECURSIVE SortByMinutes(_, _)
\* eligible_ids.sort(key=minutes so far), stable
SortByMinutes(sorted, rest) ==
  IF Len(rest) = 0 THEN sorted
  ELSE SortByMinutes(InsertByMinutes(sorted, rest[1]), Tail(rest))

\* the row upsert_candidate_audit of the v1 generator writes
V1CandidateAuditRow(reasons, selected, minutes_so_far) ==
  [eligible         |-> Len(reasons) = 0,
   rejection_reason |-> IF Len(reasons) = 0 THEN NoneValue ELSE reasons[1],
   selected         |-> selected,
   minutes_so_far   |-> minutes_so_far,
   reasons          |-> reasons]

RECURSIVE V1UpsertCandidates(_, _, _, _)
V1UpsertCandidates(table, emps, row, picked) ==
  IF Len(emps) = 0 THEN table
  ELSE V1UpsertCandidates(
         (CandidateKey(row, emps[1]) :>
            V1CandidateAuditRow(eligibility(emps[1], row.shift_date, row.day_of_week,
                                            RowStart(row), RowEnd(row)),
                                emps[1] \in SeqToSet(picked),
                                minutes_by_emp[emps[1]])) @@ table,
         Tail(emps), row, picked)

\* one iteration of the main loop
V1MainLoopStep ==
  /\ pc = "main_loop"
  /\ loop.i <= Len(demand)
  /\ LET row          == demand[loop.i]
         eligible_ids == SortByMinutes(<<>>, EligibleIds(employees, row))
         need         == row.required_count
         picked       == SubSeq(eligible_ids, 1, IF need < Len(eligible_ids) THEN need
                                                 ELSE Len(eligible_ids))
     IN  /\ audit_candidate' = V1UpsertCandidates(audit_candidate, employees, row, picked)
         /\ scheduled_rows' = scheduled_rows \o
              [k \in 1..Len(picked) |->
                 [employee_id |-> picked[k], shift_date |-> row.shift_date,
                  day_of_week |-> row.day_of_week, label |-> row.label,
                  start_time |-> row.start_time, end_time |-> row.end_time]]
         /\ assigned_by_emp_day' =
              assigned_by_emp_day \cup {<<picked[k], row.shift_date>> : k \in 1..Len(picked)}
         /\ minutes_by_emp' =
              [e \in DOMAIN minutes_by_emp |->
                 IF e \in SeqToSet(picked)
                 THEN minutes_by_emp[e] + (RowEnd(row) - RowStart(row))
                 ELSE minutes_by_emp[e]]
         /\ audit_shift' = (ShiftKey(row) :>
                              ShiftAuditRow(need, Len(picked), Len(eligible_ids),
                                            RejectionCounter(employees, row))) @@ audit_shift
         /\ picked_log' = (ShiftKey(row) :> picked) @@ picked_log
  /\ loop' = [i |-> loop.i + 1]
  /\ UNCHANGED <<inputs, database, pc, demand_sorted, scheduled_shifts, assigned_shifts_by_emp,
                 shifts_by_date_by_emp, ft_under_target, pt_over_ideal, assigned_shifts_map>>

\* db.commit() after the last shift
V1Commit ==
  /\ pc = "main_loop"
  /\ loop.i > Len(demand)
  /\ db' = Commit(db, run, scheduled_rows, audit_candidate, audit_shift)
  /\ history' = [history EXCEPT !.row_count =
                   (run.schedule_run_id :>
                      Cardinality({x \in db'.scheduled_shifts :
                                     /\ x.studio_id = run.studio_id
                                     /\ x.shift_date \in run.month_start..run.month_end})) @@ @]
  /\ pc' = "done"
  /\ UNCHANGED <<inputs, other, loop, demand_sorted, tracking, ft_under_target, pt_over_ideal,
                 assigned_shifts_map, audit, scheduled_rows, assigned_by_emp_day>>

(***************************************************************************)
(* Inputs of a run. The demand is the expansion of a set of weekly shift   *)
(* templates over the dates month_start..month_end, as loaded by the       *)
(* query ordered by (shift_date, start_time); the employees are a          *)
(* selection of a roster, in roster order.                                 *)
(***************************************************************************)
NumDays == 7
MaxEmployees == 2
SwapGroup == 51

Template(days, label, start_time, end_time, required) ==
  [days |-> days, label |-> label, start_time |-> start_time, end_time |-> end_time,
   required |-> required]

\* the templates of scheduling/shift_templates.py, without AM_0530_1330
StudioTemplates ==
  << Template(1..5, "AM_A", <<4, 25>>, <<12, 25>>, 1),
     Template(1..5, "PM_A", <<12, 30>>, <<20, 30>>, 2),
     Template({6}, "SAT_A", <<5, 30>>, <<12, 30>>, 1),
     Template({6}, "SAT_B", <<8, 0>>, <<14, 0>>, 1),
     Template({0}, "SUN_A", <<7, 45>>, <<13, 30>>, 2) >>

\* two shifts back to back on every day
BackToBackTemplates ==
  << Template(0..6, "MID_A", <<8, 0>>, <<12, 0>>, 1),
     Template(0..6, "MID_B", <<12, 0>>, <<16, 0>>, 1) >>

\* one three-hour shift a day, each starting when the one of the day before ends
StaircaseTemplates ==
  << Template({2}, "TUE", <<0, 0>>, <<3, 0>>, 1),
     Template({3}, "WED", <<3, 0>>, <<6, 0>>, 1),
     Template({4}, "THU", <<6, 0>>, <<9, 0>>, 1),
     Template({5}, "FRI", <<9, 0>>, <<12, 0>>, 1),
     Template({6}, "SAT_A", <<12, 0>>, <<15, 0>>, 1),
     Template({0}, "SUN_A", <<15, 0>>, <<18, 0>>, 1),
     Template({1}, "MON", <<18, 0>>, <<21, 0>>, 1) >>

\* two overlapping shifts and one of eleven hours
OverlapTemplates ==
  << Template(0..6, "AM_B", <<5, 30>>, <<13, 30>>, 1),
     Template({1, 3, 5}, "LONG", <<6, 0>>, <<17, 0>>, 1),
     Template(0..6, "PM_B", <<12, 30>>, <<20, 30>>, 1) >>

\* a Sunday, a Wednesday and a Saturday shift of unequal lengths
WeekendTemplates ==
  << Template({0}, "SUN_A", <<8, 0>>, <<18, 0>>, 1),
     Template({3}, "WED", <<8, 0>>, <<12, 30>>, 1),
     Template({6}, "SAT_A", <<8, 0>>, <<16, 25>>, 1) >>

\* the same week with SwapGroup employees required on each shift
SwapTemplates ==
  << Template({0}, "SUN_A", <<8, 0>>, <<18, 0>>, SwapGroup),
     Template({3}, "WED", <<8, 0>>, <<12, 30>>, SwapGroup),
     Template({6}, "SAT_A", <<8, 0>>, <<16, 25>>, SwapGroup) >>

\* one Wednesday shift
SingleTemplates == << Template({3}, "WED", <<8, 0>>, <<12, 30>>, 1) >>

\* a month of long Monday, Wednesday and Friday shifts, short Tuesday shifts and
\* an early Sunday shift that ends when the Monday shift starts
RepairTemplates(sunday_start) ==
  << Template({1, 3, 5}, "LONG", <<8, 0>>, <<17, 50>>, 1),
     Template({2}, "TUE", <<10, 0>>, <<14, 0>>, 1),
     Template({0}, "SUN_A", sunday_start, <<8, 0>>, 1) >>

\* a month of ten-hour shifts: Monday, Wednesday and Friday mornings, Tuesdays,
\* and a Sunday shift that ends after the Monday shift has started
EnsureTemplates(sunday_start) ==
  << Template({1, 3, 5}, "LONG", <<8, 0>>, <<18, 0>>, 1),
     Template({2}, "TUE", <<10, 0>>, <<20, 0>>, 1),
     Template({0}, "SUN_A", sunday_start, <<sunday_start[1] + 10, 0>>, 1) >>

\* a morning shift with a PM label on Tuesdays and Thursdays and an afternoon
\* shift with an AM label on Wednesdays and Fridays
ClopenTemplates ==
  << Template({2, 4}, "PM_A", <<8, 0>>, <<12, 0>>, 1),
     Template({3, 5}, "AM_A", <<14, 0>>, <<18, 0>>, 1) >>

TemplateSets ==
  {StudioTemplates, BackToBackTemplates, StaircaseTemplates, OverlapTemplates,
   WeekendTemplates, SingleTemplates}

RECURSIVE InsertByStart(_, _)
InsertByStart(sorted, row) ==
  IF Len(sorted) = 0 THEN <<row>>
  ELSE IF ToMinutes(row.start_time) < ToMinutes(sorted[1].start_time)
       THEN <<row>> \o sorted
       ELSE <<sorted[1]>> \o InsertByStart(Tail(sorted), row)

RECURSIVE RowsOfDate(_, _, _)
\* the shift instances of date d, ordered by start_time
RowsOfDate(sorted, templates, d) ==
  IF Len(templates) = 0 THEN sorted
  ELSE LET t   == templates[1]
           row == [shift_date |-> d, day_of_week |-> DowOf(d), label |-> t.label,
                   start_time |-> t.start_time, end_time |-> t.end_time,
                   required_count |-> t.required]
       IN  RowsOfDate(IF DowOf(d) \in t.days THEN InsertByStart(sorted, row) ELSE sorted,
                      Tail(templates), d)

RECURSIVE Expand(_, _, _)
\* the shift instances of the dates first..last, ordered by (shift_date, start_time)
Expand(templates, first, last) ==
  IF first > last THEN <<>>
  ELSE RowsOfDate(<<>>, templates, first) \o Expand(templates, first + 1, last)

Roster == <<"e1", "e2", "e3", "e4", "e5", "e6">>

Profile(employment_type, weekend_preference, ideal_hours_weekly) ==
  [employment_type |-> employment_type, weekend_preference |-> weekend_preference,
   ideal_hours_weekly |-> ideal_hours_weekly]

\* the EmployeeProfile built from the employee_rules rows; an absent rule
\* leaves None, an absent IDEAL_HOURS_WEEKLY is written 0
\* a large studio: SwapGroup part-time employees who prefer Saturday and are on
\* PTO on the Wednesday, SwapGroup who prefer Sunday, and a full-time employee
\* available on Mondays only
SwapRoster ==
  [k \in 1..(2 * SwapGroup + 1) |->
     IF k <= SwapGroup THEN "sat" \o ToString(k)
     ELSE IF k <= 2 * SwapGroup THEN "sun" \o ToString(k - SwapGroup)
     ELSE "f2"]

RosterProfile(e) ==
  CASE e = "e1" -> Profile("full_time", "saturday", 0)
    [] e = "e2" -> Profile("full_time", "saturday", 0)
    [] e = "e3" -> Profile("part_time", "saturday", 1)
    [] e = "e4" -> Profile("part_time", "sunday", 1)
    [] e = "e5" -> Profile(NoneValue, NoneValue, 0)
    [] e = "e6" -> Profile("part_time", "either", 20)
    [] e = "f1" -> Profile("full_time", NoneValue, 0)
    [] e = "p1" -> Profile("part_time", "sunday", 1)
    [] e = "p2" -> Profile("part_time", "sunday", 5)
    [] e = "p3" -> Profile("part_time", "sunday", 1)
    [] e = "f3" -> Profile("full_time", NoneValue, 0)
    [] e = "p4" -> Profile("part_time", "sunday", 11)
    [] e = "f2" -> Profile("full_time", NoneValue, 0)
    [] e \in {SwapRoster[k] : k \in 1..SwapGroup} -> Profile("part_time", "saturday", 1)
    [] e \in {SwapRoster[k] : k \in (SwapGroup + 1)..(2 * SwapGroup)} ->
         Profile("part_time", "sunday", 1)

Window(day_of_week, start_time, end_time) ==
  [day_of_week |-> day_of_week, start_time |-> start_time, end_time |-> end_time]

\* employee_availability rows
RosterAvailability(e) ==
  IF e = "e5" THEN [i \in 1..5 |-> Window(i, <<8, 0>>, <<16, 0>>)]
  ELSE IF e = "e6"
  THEN [i \in 1..14 |-> IF i <= 7 THEN Window(i - 1, <<0, 0>>, <<12, 0>>)
                                  ELSE Window(i - 8, <<12, 0>>, <<23, 59>>)]
  ELSE IF e \in {"f1", "f3"}
  THEN <<Window(0, <<0, 0>>, <<23, 59>>), Window(1, <<0, 0>>, <<23, 59>>),
         Window(3, <<0, 0>>, <<23, 59>>), Window(5, <<0, 0>>, <<23, 59>>)>>
  ELSE IF e \in {"p1", "p2", "p4"}
  THEN <<Window(0, <<0, 0>>, <<23, 59>>), Window(2, <<0, 0>>, <<23, 59>>)>>
  ELSE IF e = "p3"
  THEN <<Window(0, <<0, 0>>, <<23, 59>>)>>
  ELSE IF e = "f2"
  THEN <<Window(1, <<0, 0>>, <<23, 59>>)>>
  ELSE [i \in 1..7 |-> Window(i - 1, <<0, 0>>, <<23, 59>>)]

\* employee_unavailability rows
RosterUnavailability(e) ==
  IF e = "e5" THEN <<Window(3, <<12, 0>>, <<13, 0>>)>> ELSE <<>>

\* employee_pto rows <<start_date, end_date>>
RosterPto(e) ==
  IF e = "e3" \/ e \in {SwapRoster[k] : k \in 1..SwapGroup} THEN <<<<3, 3>>>>
  ELSE IF e = "e6" THEN <<<<5, 6>>>>
  ELSE IF e \in {"f1", "p1", "p2", "p3"} THEN <<<<14, 14>>, <<21, 21>>, <<28, 28>>, <<35, 35>>>>
  ELSE <<>>

\* employee_time_off rows <<start_date, end_date>>
RosterTimeOff(e) ==
  IF e = "e5" THEN <<<<1, 2>>>>
  ELSE IF e = "e6" THEN <<<<6, 7>>>>
  ELSE IF e = "f3" THEN <<<<8, 8>>, <<30, 36>>>>
  ELSE IF e = "p4" THEN <<<<30, 36>>>>
  ELSE <<>>

RECURSIVE WindowsOf(_, _)
\* the (start, end) minute pairs of the rows of one day of week, in row order
WindowsOf(rows, dow) ==
  IF Len(rows) = 0 THEN <<>>
  ELSE (IF rows[1].day_of_week = dow
        THEN << <<ToMinutes(rows[1].start_time), ToMinutes(rows[1].end_time)>> >>
        ELSE <<>>) \o WindowsOf(Tail(rows), dow)

\* _daterange over every row
DatesOf(rows) == UNION {rows[i][1]..rows[i][2] : i \in 1..Len(rows)}

EmployeeLists ==
  {SeqFilter(Roster, SeqToSet(Roster) \ S) :
     S \in {S \in SUBSET SeqToSet(Roster) : Cardinality(S) >= 1 /\ Cardinality(S) <= MaxEmployees}}

\* the values the queries of generate_month_schedule load: the demand of the
\* studio in month_start..month_end and the indices of the employees emps
LoadInputs(templates, month_start, month_end, emps) ==
  [demand           |-> Expand(templates, month_start, month_end),
   employees        |-> emps,
   profiles         |-> [e \in SeqToSet(emps) |-> RosterProfile(e)],
   avail_by_emp_dow |->
     [e \in SeqToSet(emps) |-> [dow \in 0..6 |-> WindowsOf(RosterAvailability(e), dow)]],
   unavail_by_emp_dow |->
     [e \in SeqToSet(emps) |-> [dow \in 0..6 |-> WindowsOf(RosterUnavailability(e), dow)]],
   off_dates_by_emp |-> [e \in SeqToSet(emps) |-> DatesOf(RosterTimeOff(e))],
   pto_dates_by_emp |-> [e \in SeqToSet(emps) |-> DatesOf(RosterPto(e))]]

\* the arguments of a call and its ScheduleRun before db.flush()
Request(studio_id, month_start, month_end, overwrite) ==
  [studio_id |-> studio_id, month_start |-> month_start, month_end |-> month_end,
   overwrite |-> overwrite, schedule_run_id |-> NoneValue, deleted |-> {}]

\* the tables before any run has committed
EmptyTables(instances, emps) ==
  [shift_instances |-> instances, employees |-> emps, schedule_runs |-> {},
   scheduled_shifts |-> {}, schedule_audit_candidate |-> <<>>,
   schedule_audit_shift |-> <<>>]

\* the state when the generator starts on the loaded inputs, all tracking
\* structures empty
Init ==
  /\ \E templates \in TemplateSets, month_start \in 0..6, emps \in EmployeeLists,
        version \in {"v1", "v2"} :
       LET loaded == LoadInputs(templates, month_start, month_start + NumDays - 1, emps)
       IN  /\ generator_version = version
           /\ demand = loaded.demand
           /\ employees = loaded.employees
           /\ profiles = loaded.profiles
           /\ avail_by_emp_dow = loaded.avail_by_emp_dow
           /\ unavail_by_emp_dow = loaded.unavail_by_emp_dow
           /\ off_dates_by_emp = loaded.off_dates_by_emp
           /\ pto_dates_by_emp = loaded.pto_dates_by_emp
           /\ run = [Request("s1", month_start, month_start + NumDays - 1, FALSE)
                       EXCEPT !.schedule_run_id = "r1"]
           /\ db = EmptyTables([s \in {"s1", "s2"} |-> templates], emps)
  /\ other = [pc |-> "none"]
  /\ history = [interleaved |-> FALSE, row_count |-> <<>>]
  /\ Len(demand) > 0
  /\ pc = IF generator_version = "v2" THEN "count" ELSE "main_loop"
  /\ loop = [i |-> 1]
  /\ assigned_by_emp_day = {}
  /\ demand_sorted = <<>>
  /\ scheduled_shifts = <<>>
  /\ assigned_shifts_by_emp = [e \in SeqToSet(employees) |-> <<>>]
  /\ minutes_by_emp = [e \in SeqToSet(employees) |-> 0]
  /\ shifts_by_date_by_emp = [e \in SeqToSet(employees) |-> <<>>]
  /\ ft_under_target = <<>>
  /\ pt_over_ideal = <<>>
  /\ assigned_shifts_map = <<>>
  /\ audit_candidate = <<>>
  /\ audit_shift = <<>>
  /\ picked_log = <<>>
  /\ scheduled_rows = <<>>

\* a v2 run over a month, from the loaded inputs to the end of the repair pass:
\* one full-time employee close to the 30 hour target and one part-time
\* employee
RepairDays == 29

RepairInit ==
  /\ \E sunday_start \in {<<6, 0>>, <<3, 0>>},
        emps \in {<<"f1", "p1">>, <<"p1", "f1">>, <<"f1", "p2">>, <<"p2", "f1">>,
                  <<"f1", "p3">>, <<"p3", "f1">>} :
       LET loaded == LoadInputs(RepairTemplates(sunday_start), 1, RepairDays, emps)
       IN  /\ demand = loaded.demand
           /\ employees = loaded.employees
           /\ profiles = loaded.profiles
           /\ avail_by_emp_dow = loaded.avail_by_emp_dow
           /\ unavail_by_emp_dow = loaded.unavail_by_emp_dow
           /\ off_dates_by_emp = loaded.off_dates_by_emp
           /\ pto_dates_by_emp = loaded.pto_dates_by_emp
           /\ db = EmptyTables([s \in {"s1", "s2"} |-> RepairTemplates(sunday_start)], emps)
  /\ generator_version = "v2"
  /\ run = [Request("s1", 1, RepairDays, FALSE) EXCEPT !.schedule_run_id = "r1"]
  /\ other = [pc |-> "none"]
  /\ history = [interleaved |-> FALSE, row_count |-> <<>>]
  /\ pc = "count"
  /\ loop = [i |-> 1]
  /\ assigned_by_emp_day = {}
  /\ demand_sorted = <<>>
  /\ scheduled_shifts = <<>>
  /\ assigned_shifts_by_emp = [e \in SeqToSet(employees) |-> <<>>]
  /\ minutes_by_emp = [e \in SeqToSet(employees) |-> 0]
  /\ shifts_by_date_by_emp = [e \in SeqToSet(employees) |-> <<>>]
  /\ ft_under_target = <<>>
  /\ pt_over_ideal = <<>>
  /\ assigned_shifts_map = <<>>
  /\ audit_candidate = <<>>
  /\ audit_shift = <<>>
  /\ picked_log = <<>>
  /\ scheduled_rows = <<>>

RepairNext == CountCandidates \/ GreedyShift \/ RepairBegin \/ RepairStep

RepairSpec == RepairInit /\ [][RepairNext]_vars

\* the generator is sequential code: an iteration of the repair loops that can
\* execute does. This is WF_vars(RepairStep) written out: RepairStep always
\* advances loop, so ENABLED <<RepairStep>>_vars is pc = "repair" /\ RepairPending
RepairFairSpec ==
  RepairSpec /\ ([]<>~(pc = "repair" /\ RepairPending) \/ []<><<RepairStep>>_vars)

\* a v2 run over one week, Sunday to Saturday, of the large studio, from the
\* loaded inputs to the end of the preference swap pass
SwapInit ==
  /\ LET loaded == LoadInputs(SwapTemplates, 0, 6, SwapRoster)
     IN  /\ demand = loaded.demand
         /\ employees = loaded.employees
         /\ profiles = loaded.profiles
         /\ avail_by_emp_dow = loaded.avail_by_emp_dow
         /\ unavail_by_emp_dow = loaded.unavail_by_emp_dow
         /\ off_dates_by_emp = loaded.off_dates_by_emp
         /\ pto_dates_by_emp = loaded.pto_dates_by_emp
         /\ db = EmptyTables([s \in {"s1", "s2"} |-> SwapTemplates], SwapRoster)
  /\ generator_version = "v2"
  /\ run = [Request("s1", 0, 6, FALSE) EXCEPT !.schedule_run_id = "r1"]
  /\ other = [pc |-> "none"]
  /\ history = [interleaved |-> FALSE, row_count |-> <<>>]
  /\ pc = "count"
  /\ loop = [i |-> 1]
  /\ assigned_by_emp_day = {}
  /\ demand_sorted = <<>>
  /\ scheduled_shifts = <<>>
  /\ assigned_shifts_by_emp = [e \in SeqToSet(employees) |-> <<>>]
  /\ minutes_by_emp = [e \in SeqToSet(employees) |-> 0]
  /\ shifts_by_date_by_emp = [e \in SeqToSet(employees) |-> <<>>]
  /\ ft_under_target = <<>>
  /\ pt_over_ideal = <<>>
  /\ assigned_shifts_map = <<>>
  /\ audit_candidate = <<>>
  /\ audit_shift = <<>>
  /\ picked_log = <<>>
  /\ scheduled_rows = <<>>

SwapNext ==
  \/ CountCandidates
  \/ GreedyShift
  \/ RepairBegin
  \/ RepairStep
  \/ FillBegin
  \/ FillStep
  \/ PrefSwapStep

SwapSpec == SwapInit /\ [][SwapNext]_vars

\* the inputs of the complete v2 runs: a month with a full-time employee who is
\* off on the second Monday and a part-time employee who prefers Sundays, and
\* a week of the shifts with AM and PM labels
EnsureScenarios ==
  {[templates |-> EnsureTemplates(sunday_start), month_start |-> 1, month_end |-> RepairDays,
    emps |-> emps] :
     sunday_start \in {<<11, 0>>, <<12, 0>>}, emps \in {<<"f3", "p4">>, <<"p4", "f3">>}}
  \cup
  {[templates |-> ClopenTemplates, month_start |-> 0, month_end |-> NumDays - 1, emps |-> emps] :
     emps \in {<<"e1", "e3">>, <<"e3", "e1">>, <<"e2", "e3">>, <<"e1", "e4">>}}

EnsureInit ==
  /\ \E scenario \in EnsureScenarios :
       LET loaded == LoadInputs(scenario.templates, scenario.month_start, scenario.month_end,
                                scenario.emps)
       IN  /\ demand = loaded.demand
           /\ employees = loaded.employees
           /\ profiles = loaded.profiles
           /\ avail_by_emp_dow = loaded.avail_by_emp_dow
           /\ unavail_by_emp_dow = loaded.unavail_by_emp_dow
           /\ off_dates_by_emp = loaded.off_dates_by_emp
           /\ pto_dates_by_emp = loaded.pto_dates_by_emp
           /\ db = EmptyTables([s \in {"s1", "s2"} |-> scenario.templates], scenario.emps)
           /\ run = [Request("s1", scenario.month_start, scenario.month_end, FALSE)
                       EXCEPT !.schedule_run_id = "r1"]
  /\ generator_version = "v2"
  /\ other = [pc |-> "none"]
  /\ history = [interleaved |-> FALSE, row_count |-> <<>>]
  /\ pc = "count"
  /\ loop = [i |-> 1]
  /\ assigned_by_emp_day = {}
  /\ demand_sorted = <<>>
  /\ scheduled_shifts = <<>>
  /\ assigned_shifts_by_emp = [e \in SeqToSet(employees) |-> <<>>]
  /\ minutes_by_emp = [e \in SeqToSet(employees) |-> 0]
  /\ shifts_by_date_by_emp = [e \in SeqToSet(employees) |-> <<>>]
  /\ ft_under_target = <<>>
  /\ pt_over_ideal = <<>>
  /\ assigned_shifts_map = <<>>
  /\ audit_candidate = <<>>
  /\ audit_shift = <<>>
  /\ picked_log = <<>>
  /\ scheduled_rows = <<>>

EnsureNext ==
  \/ CountCandidates
  \/ GreedyShift
  \/ RepairBegin
  \/ RepairStep
  \/ FillBegin
  \/ FillStep
  \/ PrefSwapStep
  \/ EnsureWeekendStep
  \/ OptimizeAttempt
  \/ WriteRows

EnsureSpec == EnsureInit /\ [][EnsureNext]_vars

(***************************************************************************)
(* A request to POST /generate, from the range check to the loaded         *)
(* inputs. Every action is one statement of the session.                   *)
(***************************************************************************)
\* the range check of the router and of the generator, then db.add(run) and
\* db.flush(): the ScheduleRun row gets an id no other run has
CreateRun ==
  /\ pc = "start"
  /\ IF InvalidRange(run)
     THEN /\ pc' = "raise_month_end"
          /\ run' = run
          /\ db' = Close(db, run)
     ELSE /\ pc' = "overwrite"
          /\ db' = db
          /\ run' = [run EXCEPT !.schedule_run_id =
                       CHOOSE id \in {"r1", "r2"} :
                         /\ id # other.run.schedule_run_id
                         /\ \A x \in db.schedule_runs : x.schedule_run_id # id]
  /\ UNCHANGED <<demand, employees, profiles, avail_by_emp_dow, unavail_by_emp_dow,
                 off_dates_by_emp, pto_dates_by_emp, generator_version, loop,
                 demand_sorted, tracking, ft_under_target, pt_over_ideal,
                 assigned_shifts_map, audit, scheduled_rows, assigned_by_emp_day,
                 other, history>>

\* the optional overwrite: the DELETE removes the committed rows it matches
OverwriteDelete ==
  /\ pc = "overwrite"
  /\ run' = [run EXCEPT !.deleted =
               IF run.overwrite
               THEN {x.scheduled_shift_id : x \in OverwriteMatches(db.scheduled_shifts, run)}
               ELSE {}]
  /\ pc' = "load"
  /\ UNCHANGED <<demand, employees, profiles, avail_by_emp_dow, unavail_by_emp_dow,
                 off_dates_by_emp, pto_dates_by_emp, generator_version, loop,
                 demand_sorted, tracking, ft_under_target, pt_over_ideal,
                 assigned_shifts_map, audit, scheduled_rows, assigned_by_emp_day,
                 database>>

\* the queries that load the demand, the employees and their rows, with the
\* two HTTPException exits, and the empty tracking structures
LoadStep ==
  /\ pc = "load"
  /\ LET loaded == LoadInputs(db.shift_instances[run.studio_id], run.month_start,
                              run.month_end, db.employees)
         found  == IF Len(loaded.demand) = 0
                   THEN LoadInputs(<<>>, 0, 0, <<>>)
                   ELSE loaded
     IN  /\ pc' = IF Len(loaded.demand) = 0 THEN "raise_no_shift_instances"
                  ELSE IF Len(loaded.employees) = 0 THEN "raise_no_employees"
                  ELSE IF generator_version = "v2" THEN "count" ELSE "main_loop"
         /\ db' = IF Len(loaded.demand) = 0 \/ Len(loaded.employees) = 0
                  THEN Close(db, run) ELSE db
         /\ demand' = loaded.demand
         /\ employees' = found.employees
         /\ profiles' = found.profiles
         /\ avail_by_emp_dow' = found.avail_by_emp_dow
         /\ unavail_by_emp_dow' = found.unavail_by_emp_dow
         /\ off_dates_by_emp' = found.off_dates_by_emp
         /\ pto_dates_by_emp' = found.pto_dates_by_emp
         /\ assigned_shifts_by_emp' = [e \in SeqToSet(found.employees) |-> <<>>]
         /\ minutes_by_emp' = [e \in SeqToSet(found.employees) |-> 0]
         /\ shifts_by_date_by_emp' = [e \in SeqToSet(found.employees) |-> <<>>]
  /\ UNCHANGED <<generator_version, run, loop, demand_sorted, scheduled_shifts,
                 ft_under_target, pt_over_ideal, assigned_shifts_map, audit,
                 scheduled_rows, assigned_by_emp_day, other, history>>

\* the local state of the executing session
Local ==
  [pc |-> pc, run |-> run, generator_version |-> generator_version,
   demand |-> demand, employees |-> employees, profiles |-> profiles,
   avail_by_emp_dow |-> avail_by_emp_dow, unavail_by_emp_dow |-> unavail_by_emp_dow,
   off_dates_by_emp |-> off_dates_by_emp, pto_dates_by_emp |-> pto_dates_by_emp,
   loop |-> loop, demand_sorted |-> demand_sorted, scheduled_shifts |-> scheduled_shifts,
   assigned_shifts_by_emp |-> assigned_shifts_by_emp, minutes_by_emp |-> minutes_by_emp,
   shifts_by_date_by_emp |-> shifts_by_date_by_emp, ft_under_target |-> ft_under_target,
   pt_over_ideal |-> pt_over_ideal, assigned_shifts_map |-> assigned_shifts_map,
   audit_candidate |-> audit_candidate, audit_shift |-> audit_shift,
   picked_log |-> picked_log, scheduled_rows |-> scheduled_rows,
   assigned_by_emp_day |-> assigned_by_emp_day]

\* the endpoint is a plain function, which the server runs on a thread of its
\* pool: the session of the other request executes next
Switch ==
  /\ LET returned == {"done", "raise_month_end", "raise_no_shift_instances",
                       "raise_no_employees"}
     IN  /\ other.pc \notin {"none"} \cup returned
         /\ history' = [history EXCEPT
                          !.interleaved = @ \/ pc \notin {"start"} \cup returned]
  /\ other' = Local
  /\ pc' = other.pc
  /\ run' = other.run
  /\ generator_version' = other.generator_version
  /\ demand' = other.demand
  /\ employees' = other.employees
  /\ profiles' = other.profiles
  /\ avail_by_emp_dow' = other.avail_by_emp_dow
  /\ unavail_by_emp_dow' = other.unavail_by_emp_dow
  /\ off_dates_by_emp' = other.off_dates_by_emp
  /\ pto_dates_by_emp' = other.pto_dates_by_emp
  /\ loop' = other.loop
  /\ demand_sorted' = other.demand_sorted
  /\ scheduled_shifts' = other.scheduled_shifts
  /\ assigned_shifts_by_emp' = other.assigned_shifts_by_emp
  /\ minutes_by_emp' = other.minutes_by_emp
  /\ shifts_by_date_by_emp' = other.shifts_by_date_by_emp
  /\ ft_under_target' = other.ft_under_target
  /\ pt_over_ideal' = other.pt_over_ideal
  /\ assigned_shifts_map' = other.assigned_shifts_map
  /\ audit_candidate' = other.audit_candidate
  /\ audit_shift' = other.audit_shift
  /\ picked_log' = other.picked_log
  /\ scheduled_rows' = other.scheduled_rows
  /\ assigned_by_emp_day' = other.assigned_by_emp_day
  /\ UNCHANGED db

Next ==
  \/ CountCandidates
  \/ GreedyShift
  \/ RepairBegin
  \/ RepairStep
  \/ FillBegin
  \/ FillStep
  \/ PrefSwapStep
  \/ EnsureWeekendStep
  \/ OptimizeAttempt
  \/ WriteRows
  \/ V1MainLoopStep
  \/ V1Commit

Spec == Init /\ [][Next]_vars

(***************************************************************************)
(* Two requests against one database. An earlier run r0 of studio s1 and   *)
(* an earlier run r9 of studio s2 have committed rows inside and outside   *)
(* the requested ranges.                                                   *)
(***************************************************************************)
\* the local state of a session before its first statement
Session(request, version) ==
  [pc |-> "start", run |-> request, generator_version |-> version,
   demand |-> <<>>, employees |-> <<>>, profiles |-> <<>>,
   avail_by_emp_dow |-> <<>>, unavail_by_emp_dow |-> <<>>,
   off_dates_by_emp |-> <<>>, pto_dates_by_emp |-> <<>>,
   loop |-> [i |-> 1], demand_sorted |-> <<>>, scheduled_shifts |-> <<>>,
   assigned_shifts_by_emp |-> <<>>, minutes_by_emp |-> <<>>,
   shifts_by_date_by_emp |-> <<>>, ft_under_target |-> <<>>,
   pt_over_ideal |-> <<>>, assigned_shifts_map |-> <<>>,
   audit_candidate |-> <<>>, audit_shift |-> <<>>,
   picked_log |-> <<>>, scheduled_rows |-> <<>>,
   assigned_by_emp_day |-> {}]

\* the requests: a studio, a range from a Monday of NumDays days, of two days
\* or with month_end before month_start, and the overwrite flag
Requests ==
  {Request(studio_id, 1, month_end, overwrite) :
     studio_id \in {"s1", "s2"}, month_end \in {0, 2, NumDays}, overwrite \in BOOLEAN}

\* the tables after the runs r0 and r9
PriorTables(instances, emps) ==
  LET wed(d) == [employee_id |-> "e4", shift_date |-> d, day_of_week |-> DowOf(d),
                 label |-> "WED", start_time |-> <<8, 0>>, end_time |-> <<12, 30>>]
      r0 == [Request("s1", 0, 20, FALSE) EXCEPT !.schedule_run_id = "r0"]
      r9 == [Request("s2", 0, 20, FALSE) EXCEPT !.schedule_run_id = "r9"]
      shifts(d) == (ShiftKey(wed(d)) :> ShiftAuditRow(1, 1, 1, <<>>))
  IN  Commit(Commit(EmptyTables(instances, emps), r0, <<wed(3), wed(17)>>,
                    <<>>, shifts(3) @@ shifts(17)),
             r9, <<wed(3)>>, <<>>, shifts(3))

DbInit ==
  /\ \E templates \in {SingleTemplates, WeekendTemplates},
        emps \in {SeqFilter(<<"e1", "e3">>, S) : S \in SUBSET {"e1", "e3"}},
        first \in Requests, second \in Requests, version \in {"v1", "v2"} :
       /\ db = PriorTables([s \in {"s1", "s2"} |-> IF s = "s1" THEN templates
                                              ELSE SingleTemplates], emps)
       /\ other = Session(second, version)
       /\ LET s == Session(first, version)
          IN  /\ pc = s.pc
              /\ run = s.run
              /\ generator_version = s.generator_version
              /\ demand = s.demand
              /\ employees = s.employees
              /\ profiles = s.profiles
              /\ avail_by_emp_dow = s.avail_by_emp_dow
              /\ unavail_by_emp_dow = s.unavail_by_emp_dow
              /\ off_dates_by_emp = s.off_dates_by_emp
              /\ pto_dates_by_emp = s.pto_dates_by_emp
              /\ loop = s.loop
              /\ demand_sorted = s.demand_sorted
              /\ scheduled_shifts = s.scheduled_shifts
              /\ assigned_shifts_by_emp = s.assigned_shifts_by_emp
              /\ minutes_by_emp = s.minutes_by_emp
              /\ shifts_by_date_by_emp = s.shifts_by_date_by_emp
              /\ ft_under_target = s.ft_under_target
              /\ pt_over_ideal = s.pt_over_ideal
              /\ assigned_shifts_map = s.assigned_shifts_map
              /\ audit_candidate = s.audit_candidate
              /\ audit_shift = s.audit_shift
              /\ picked_log = s.picked_log
              /\ scheduled_rows = s.scheduled_rows
              /\ assigned_by_emp_day = s.assigned_by_emp_day
  /\ history = [interleaved |-> FALSE, row_count |-> <<>>]

DbNext ==
  \/ CreateRun
  \/ OverwriteDelete
  \/ LoadStep
  \/ Switch
  \/ Next

DbSpec == DbInit /\ [][DbNext]_vars

(***************************************************************************)
(* Properties.                                                             *)
(***************************************************************************)
\* the entries of the working schedule held by one employee
HeldBy(e) == {i \in 1..Len(scheduled_shifts) : scheduled_shifts[i].eid = e}

RECURSIVE HeldMinutes(_, _)
\* sum of (end - start) over the entries of sched held by e
HeldMinutes(sched, e) ==
  IF Len(sched) = 0 THEN 0
  ELSE (IF sched[1].eid = e THEN sched[1].e_m - sched[1].s_m ELSE 0)
       + HeldMinutes(Tail(sched), e)

\* the static hard rules of employee e for a shift of the demand
StaticRulesHold(e, shift_date, dow, start_m, end_m) ==
  /\ shift_date \notin pto_dates_by_emp[e]
  /\ shift_date \notin off_dates_by_emp[e]
  /\ \E i \in 1..Len(avail_by_emp_dow[e][dow]) :
        /\ avail_by_emp_dow[e][dow][i][1] <= start_m
        /\ end_m <= avail_by_emp_dow[e][dow][i][2]
  /\ \A i \in 1..Len(unavail_by_emp_dow[e][dow]) :
        ~(start_m < unavail_by_emp_dow[e][dow][i][2] /\ unavail_by_emp_dow[e][dow][i][1] < end_m)
  /\ end_m - start_m <= 600

\* C1: no double-booking. In every state of a v2 run, any two entries of the
\* working schedule held by one employee, and any two AssignedShift entries of
\* one employee, do not overlap on the absolute timeline; the same holds for
\* the rows of the final schedule.
C1_NoDoubleBooking ==
  generator_version = "v2" =>
    /\ \A i, j \in 1..Len(scheduled_shifts) :
         (i # j /\ scheduled_shifts[i].eid = scheduled_shifts[j].eid) =>
            LET a == scheduled_shifts[i]
                b == scheduled_shifts[j]
            IN  ~(/\ a.shift_date * 1440 + a.s_m < b.shift_date * 1440 + b.e_m
                  /\ b.shift_date * 1440 + b.s_m < a.shift_date * 1440 + a.e_m)
    /\ \A e \in SeqToSet(employees) : \A i, j \in 1..Len(assigned_shifts_by_emp[e]) :
         i # j =>
            LET a == assigned_shifts_by_emp[e][i]
                b == assigned_shifts_by_emp[e][j]
            IN  ~(/\ a.shift_date * 1440 + a.start_m < b.shift_date * 1440 + b.end_m
                  /\ b.shift_date * 1440 + b.start_m < a.shift_date * 1440 + a.end_m)
    /\ \A i, j \in 1..Len(scheduled_rows) :
         (i # j /\ scheduled_rows[i].employee_id = scheduled_rows[j].employee_id) =>
            LET a == scheduled_rows[i]
                b == scheduled_rows[j]
            IN  ~(/\ a.shift_date * 1440 + ToMinutes(a.start_time)
                       < b.shift_date * 1440 + ToMinutes(b.end_time)
                  /\ b.shift_date * 1440 + ToMinutes(b.start_time)
                       < a.shift_date * 1440 + ToMinutes(a.end_time))

\* C1 witness: a finished v2 run in which an employee holds two shifts and the
\* demand has a third shift that overlaps one of them
C1_Witness ==
  /\ generator_version = "v2"
  /\ pc = "done"
  /\ \E e \in SeqToSet(employees) : \E i \in HeldBy(e) : \E k \in 1..Len(demand) :
       /\ Cardinality(HeldBy(e)) >= 2
       /\ demand[k].shift_date = scheduled_shifts[i].shift_date
       /\ demand[k].label # scheduled_shifts[i].label
       /\ RowStart(demand[k]) < scheduled_shifts[i].e_m
       /\ scheduled_shifts[i].s_m < RowEnd(demand[k])

\* C2: rest invariant. In every state of a v2 run, for any two entries of the
\* working schedule held by one employee, the later one starts at least 720
\* minutes after the earlier one ends.
C2_RestInvariant ==
  generator_version = "v2" =>
    \A i, j \in 1..Len(scheduled_shifts) :
      LET a == scheduled_shifts[i]
          b == scheduled_shifts[j]
      IN  (/\ i # j
           /\ a.eid = b.eid
           /\ a.shift_date * 1440 + a.s_m <= b.shift_date * 1440 + b.s_m) =>
             (b.shift_date * 1440 + b.s_m) - (a.shift_date * 1440 + a.e_m)
               >= MIN_REST_BETWEEN_SHIFTS_MINUTES

\* C3: consecutive-day bound. In every state of a v2 run no employee holds
\* shifts on 7 consecutive calendar dates.
C3_ConsecutiveBound ==
  generator_version = "v2" =>
    \A e \in SeqToSet(employees) : \A i \in HeldBy(e) :
      ~(\A k \in 1..MAX_CONSECUTIVE_DAYS :
          \E j \in HeldBy(e) :
            scheduled_shifts[j].shift_date = scheduled_shifts[i].shift_date + k)

\* C3 witness: a finished v2 run in which an employee holds shifts on 6
\* consecutive dates and was refused the shift of the 7th date for that reason
C3_Witness ==
  /\ generator_version = "v2"
  /\ pc = "done"
  /\ \E e \in SeqToSet(employees) : \E i \in HeldBy(e) : \E r \in 1..Len(demand) :
       /\ \A k \in 1..(MAX_CONSECUTIVE_DAYS - 1) :
            \E j \in HeldBy(e) :
              scheduled_shifts[j].shift_date = scheduled_shifts[i].shift_date + k
       /\ demand[r].shift_date = scheduled_shifts[i].shift_date + MAX_CONSECUTIVE_DAYS
       /\ audit_candidate[CandidateKey(demand[r], e)].hard_reasons
            = <<"too_many_consecutive_days_7">>

\* C4: every row of the final schedule of a v2 run satisfies the static hard
\* rules of its employee: no PTO date, no time-off date, inside one
\* availability window of the day of week, no overlap with an unavailability
\* window of the day of week, at most 10 hours.
C4_StaticHardRules ==
  generator_version = "v2" =>
    \A i \in 1..Len(scheduled_rows) :
      StaticRulesHold(scheduled_rows[i].employee_id, scheduled_rows[i].shift_date,
                      scheduled_rows[i].day_of_week,
                      ToMinutes(scheduled_rows[i].start_time),
                      ToMinutes(scheduled_rows[i].end_time))

\* C4 witness: a finished v2 run whose final schedule gives an employee a shift
\* while the demand has a shift on one of the employee's time-off dates
C4_Witness ==
  /\ generator_version = "v2"
  /\ pc = "done"
  /\ \E i \in 1..Len(scheduled_rows) : \E r \in 1..Len(demand) :
       /\ demand[r].shift_date \in off_dates_by_emp[scheduled_rows[i].employee_id]
       /\ demand[r].shift_date \notin pto_dates_by_emp[scheduled_rows[i].employee_id]

\* C5: coverage accounting. Every shift audit record of a run has
\* assigned_count + missing_count = required_count and
\* assigned_count <= candidate_count.
C5_CoverageAccounting ==
  \A k \in DOMAIN audit_shift :
    /\ audit_shift[k].assigned_count + audit_shift[k].missing_count
         = audit_shift[k].required_count
    /\ audit_shift[k].assigned_count <= audit_shift[k].candidate_count

\* C5 witness: a finished run with an under-filled shift and a shift with more
\* candidates than places
C5_Witness ==
  /\ pc = "done"
  /\ \E k \in DOMAIN audit_shift :
       audit_shift[k].missing_count > 0 /\ audit_shift[k].assigned_count > 0
  /\ \E k \in DOMAIN audit_shift :
       audit_shift[k].candidate_count > audit_shift[k].required_count

\* C6: audit completeness. After a run the candidate audit table has one row
\* for every pair (shift of the demand, employee) and no other row, and the
\* shift audit table has one row per shift of the demand.
C6_AuditCompleteness ==
  pc = "done" =>
    /\ DOMAIN audit_candidate =
         {<<demand[i].shift_date, demand[i].label, demand[i].start_time,
            demand[i].end_time, employees[j]>> :
            i \in 1..Len(demand), j \in 1..Len(employees)}
    /\ DOMAIN audit_shift =
         {<<demand[i].shift_date, demand[i].label, demand[i].start_time,
            demand[i].end_time>> : i \in 1..Len(demand)}

\* C6 witness: a finished run with two employees whose candidate audit holds
\* an eligible row and an ineligible row
C6_Witness ==
  /\ pc = "done"
  /\ Len(employees) >= 2
  /\ \E k \in DOMAIN audit_candidate : audit_candidate[k].eligible
  /\ \E k \in DOMAIN audit_candidate : ~audit_candidate[k].eligible

\* C7: for every shift the v2 greedy builder has processed and every employee,
\* the candidate audit record has selected = true exactly when the builder
\* picked the employee, and a picked employee's record has eligible = true and
\* no rejection reason.
C7_SelectedMatchesPicked ==
  generator_version = "v2" =>
    \A i \in 1..Len(demand) : \A e \in SeqToSet(employees) :
      ShiftKey(demand[i]) \in DOMAIN picked_log =>
        LET rec    == audit_candidate[CandidateKey(demand[i], e)]
            picked == e \in SeqToSet(picked_log[ShiftKey(demand[i])])
        IN  /\ rec.selected = picked
            /\ picked => (rec.eligible /\ rec.rejection_reason = NoneValue)

\* C8: PTO. In a v2 run an employee holds no shift on a PTO date, and the
\* employee's candidate audit record for a shift on a PTO date has
\* eligible = false and rejection_reason = "pto".
C8_Pto ==
  generator_version = "v2" =>
    \A e \in SeqToSet(employees) :
      /\ \A i \in HeldBy(e) : scheduled_shifts[i].shift_date \notin pto_dates_by_emp[e]
      /\ \A i \in 1..Len(scheduled_rows) :
           scheduled_rows[i].employee_id = e =>
             scheduled_rows[i].shift_date \notin pto_dates_by_emp[e]
      /\ \A r \in 1..Len(demand) :
           (/\ demand[r].shift_date \in pto_dates_by_emp[e]
            /\ CandidateKey(demand[r], e) \in DOMAIN audit_candidate) =>
              /\ ~audit_candidate[CandidateKey(demand[r], e)].eligible
              /\ audit_candidate[CandidateKey(demand[r], e)].rejection_reason = "pto"

\* C8 witness: a finished v2 run in which an employee who holds shifts was
\* refused a shift on a PTO date that violates a second hard rule as well
C8_Witness ==
  /\ generator_version = "v2"
  /\ pc = "done"
  /\ \E e \in SeqToSet(employees) : \E r \in 1..Len(demand) :
       /\ HeldBy(e) # {}
       /\ demand[r].shift_date \in pto_dates_by_emp[e]
       /\ Len(audit_candidate[CandidateKey(demand[r], e)].hard_reasons) >= 2

\* the employees that pass every hard rule for the shift before any assignment
EligibleAtStart(row) ==
  {e \in SeqToSet(employees) :
     Valid([x \in SeqToSet(employees) |-> <<>>], [x \in SeqToSet(employees) |-> <<>>],
           e, row.shift_date, row.day_of_week, RowStart(row), RowEnd(row))}

\* the demand is one shift for one person with exactly two eligible employees,
\* of identical availability and profile
TieScenario ==
  /\ generator_version = "v2"
  /\ Len(demand) = 1
  /\ demand[1].required_count = 1
  /\ Cardinality(EligibleAtStart(demand[1])) = 2
  /\ \A a, b \in EligibleAtStart(demand[1]) :
       /\ profiles[a] = profiles[b]
       /\ avail_by_emp_dow[a] = avail_by_emp_dow[b]
       /\ unavail_by_emp_dow[a] = unavail_by_emp_dow[b]
       /\ off_dates_by_emp[a] = off_dates_by_emp[b]
       /\ pto_dates_by_emp[a] = pto_dates_by_emp[b]

\* C9: tie scenario. A finished v2 run on a demand of one shift for one person
\* with exactly two eligible employees of identical availability and profile
\* assigns exactly one of the two, and the candidate audit record of the other
\* has eligible = true and selected = false.
C9_Tie ==
  (TieScenario /\ pc = "done") =>
    /\ Len(scheduled_rows) = 1
    /\ scheduled_rows[1].employee_id \in EligibleAtStart(demand[1])
    /\ scheduled_rows[1].shift_date = demand[1].shift_date
    /\ scheduled_rows[1].label = demand[1].label
    /\ \A e \in EligibleAtStart(demand[1]) \ {scheduled_rows[1].employee_id} :
         /\ audit_candidate[CandidateKey(demand[1], e)].eligible
         /\ ~audit_candidate[CandidateKey(demand[1], e)].selected

\* C9 witness: a finished run of the tie scenario
C9_Witness == TieScenario /\ pc = "done" /\ Len(scheduled_rows) = 1

\* C10: running totals. In every state of a v2 run minutes_by_emp[e] is the sum
\* of (end - start) over the entries of the working schedule held by e.
C10_RunningTotals ==
  generator_version = "v2" =>
    \A e \in SeqToSet(employees) :
      minutes_by_emp[e] = HeldMinutes(scheduled_shifts, e)

\* the AssignedShift rows of `table' of the studio and date range of run r
TargetRows(table, r) ==
  {x \in table : x.studio_id = r.studio_id /\ r.month_start <= x.shift_date
                                           /\ x.shift_date <= r.month_end}

\* the two requests run one after the other, for the same studio and range,
\* both with overwrite = true, and both have returned a run id
TwiceInSequence ==
  /\ pc = "done"
  /\ other.pc = "done"
  /\ ~history.interleaved
  /\ run.overwrite
  /\ other.run.overwrite
  /\ run.studio_id = other.run.studio_id
  /\ run.month_start = other.run.month_start
  /\ run.month_end = other.run.month_end

\* C11: idempotent re-run under overwrite. When the generator has run twice in
\* sequence with overwrite = true for the same studio and date range, on the
\* same demand and employees, the number of AssignedShift rows of that studio
\* and range after the second run is the number there was after the first,
\* whatever index pairs the optimizer of either run has sampled.
C11_IdempotentOverwrite ==
  TwiceInSequence =>
    /\ Cardinality(TargetRows(db.scheduled_shifts, run))
         = history.row_count[other.run.schedule_run_id]
    /\ history.row_count[run.schedule_run_id]
         = history.row_count[other.run.schedule_run_id]

\* C11 witness: the second of two such runs has committed rows, and the first
\* had deleted rows of an earlier run
C11_Witness ==
  /\ TwiceInSequence
  /\ history.row_count[other.run.schedule_run_id] >= 2
  /\ other.run.deleted # {}
  /\ run.deleted # {}

\* a step in which the executing session commits
CommitStep == pc # "done" /\ pc' = "done"

\* C12: overwrite frame. The commit of a run that no other session overlaps
\* removes, with overwrite = true, exactly the rows of the target studio dated
\* in [month_start, month_end] that were there before, and with
\* overwrite = false no row; rows of another studio or outside the range, run
\* records and audit rows of earlier runs stay as they were; and after an
\* overwrite every row of the studio in the range carries the new run's id.
C12_OverwriteFrame ==
  [][(CommitStep /\ ~history.interleaved) =>
       LET target == TargetRows(db.scheduled_shifts, run)
       IN  /\ db.scheduled_shifts \ db'.scheduled_shifts
                = IF run.overwrite THEN target ELSE {}
           /\ db'.scheduled_shifts \ db.scheduled_shifts
                \subseteq TargetRows(db'.scheduled_shifts, run)
           /\ db.schedule_runs \subseteq db'.schedule_runs
           /\ \A id \in DOMAIN db.schedule_audit_shift :
                /\ db'.schedule_audit_shift[id] = db.schedule_audit_shift[id]
                /\ db'.schedule_audit_candidate[id] = db.schedule_audit_candidate[id]
           /\ run.overwrite =>
                \A x \in TargetRows(db'.scheduled_shifts, run) :
                  x.schedule_run_id = run.schedule_run_id]_vars

\* C12 witness: a run of studio s1 with overwrite = true has committed; the row
\* of run r0 inside the range is gone, its row outside the range and the row
\* of studio s2 are there, and so are rows of the new run
C12_Witness ==
  /\ pc = "done"
  /\ run.overwrite
  /\ run.studio_id = "s1"
  /\ ~history.interleaved
  /\ \E x \in db.scheduled_shifts : x.schedule_run_id = run.schedule_run_id
  /\ \A x \in db.scheduled_shifts : x.schedule_run_id = "r0" => x.shift_date > run.month_end
  /\ \E x \in db.scheduled_shifts : x.schedule_run_id = "r0"
  /\ \E x \in db.scheduled_shifts : x.schedule_run_id = "r9" /\ x.shift_date <= run.month_end
  /\ "r0" \in DOMAIN db.schedule_audit_shift

\* C13: InvalidRange. A call with month_end < month_start raises at its first
\* step: it creates no run record, deletes no row (even with overwrite = true)
\* and writes no audit or assignment row; the tables are as before the call.
C13_InvalidRange ==
  [][(pc = "start" /\ run.month_end < run.month_start /\ other' = other) =>
       /\ pc' = "raise_month_end"
       /\ db' = db
       /\ run'.schedule_run_id = NoneValue
       /\ run'.deleted = {}
       /\ audit_candidate' = <<>>
       /\ audit_shift' = <<>>
       /\ scheduled_rows' = <<>>]_vars

\* C13 witness: a call with overwrite = true on a studio with committed rows has
\* raised on its range
C13_Witness ==
  /\ pc = "raise_month_end"
  /\ run.overwrite
  /\ run.month_end < run.month_start
  /\ \E x \in db.scheduled_shifts : x.studio_id = run.studio_id

\* the target window of the call has no demand row
NoDemand ==
  \A i \in 1..Len(db.shift_instances[run.studio_id]) :
    \A d \in run.month_start..run.month_end :
      DowOf(d) \notin db.shift_instances[run.studio_id][i].days

\* C14: NoDemand / NoEligibleWorkforce. A call that finds no demand row in its
\* window, or no active employee, raises (it never returns a run id), and the
\* call changes no table: the run table, the AssignedShift rows, those of
\* the target range included, and the audit tables are as before the call.
C14_ErrorsCommitNothing ==
  [][(pc \in {"start", "overwrite", "load"} /\ other' = other) =>
       /\ db' = db
       /\ (pc = "load" /\ (NoDemand \/ Len(db.employees) = 0))
            => pc' \in {"raise_no_shift_instances", "raise_no_employees"}
       /\ pc' \in {"raise_no_shift_instances", "raise_no_employees"}
            => /\ pc = "load" /\ (NoDemand \/ Len(db.employees) = 0)
               /\ \A x \in db'.schedule_runs : x.schedule_run_id # run.schedule_run_id
               /\ \A x \in db'.scheduled_shifts : x.schedule_run_id # run.schedule_run_id
               /\ TargetRows(db'.scheduled_shifts, run)
                    = TargetRows(db.scheduled_shifts, run)]_vars

\* C14 witness: a call with overwrite = true whose DELETE matched committed rows
\* has raised for want of employees, and the rows are still there
C14_Witness ==
  /\ pc = "raise_no_employees"
  /\ run.overwrite
  /\ run.deleted # {}
  /\ run.deleted \subseteq {x.scheduled_shift_id : x \in db.scheduled_shifts}

\* the employees the validator accepts for a shift of the demand on the tracking
\* state of the moment
HardEligible(row) ==
  {employees[j] : j \in {j \in 1..Len(employees) : RowValid(Tracking, employees[j], row)}}

\* a shift audit record of an under-filled shift
UnderFilled(k) == audit_shift[k].candidate_count < audit_shift[k].required_count

\* C15: under-fill is not an error. When the greedy loop of v2 reaches a shift
\* with fewer hard-eligible employees than its required_count, every eligible
\* employee is assigned to that shift, the shift's audit record has
\* missing_count = required_count - candidate_count > 0 with candidate_count
\* the number of eligible employees, and the run goes on; the commit of a run
\* with such a shift stores the run record under the run id it returns, the
\* picked employees' rows and the audit record.
C15_UnderFillNotAnError ==
  [][/\ (pc = "greedy" /\ loop.i <= Len(demand_sorted) /\ other' = other) =>
          LET row == demand_sorted[loop.i]
          IN  Cardinality(HardEligible(row)) < row.required_count =>
                /\ \A e \in HardEligible(row) :
                     \E i \in 1..Len(scheduled_shifts') :
                       scheduled_shifts'[i] =
                         ScheduledShift(e, row.shift_date, row.day_of_week, row.label,
                                        RowStart(row), RowEnd(row))
                /\ audit_shift'[ShiftKey(row)].required_count = row.required_count
                /\ audit_shift'[ShiftKey(row)].candidate_count
                     = Cardinality(HardEligible(row))
                /\ audit_shift'[ShiftKey(row)].missing_count
                     = row.required_count - Cardinality(HardEligible(row))
                /\ audit_shift'[ShiftKey(row)].missing_count > 0
                /\ pc' = "greedy"
     /\ (generator_version = "v2" /\ other' = other
           /\ \E k \in DOMAIN audit_shift : UnderFilled(k)) =>
          /\ pc' \in {"greedy", "repair", "fill", "prefswap", "ensure", "optimize", "done"}
          /\ pc' = "done" =>
               /\ \E x \in db'.schedule_runs : x.schedule_run_id = run.schedule_run_id
               /\ db'.schedule_audit_shift[run.schedule_run_id] = audit_shift
               /\ \A k \in DOMAIN audit_shift :
                    UnderFilled(k) =>
                      /\ audit_shift[k].missing_count
                           = audit_shift[k].required_count - audit_shift[k].candidate_count
                      /\ \A j \in 1..Len(picked_log[k]) :
                           \E x \in db'.scheduled_shifts :
                             /\ x.schedule_run_id = run.schedule_run_id
                             /\ x.employee_id = picked_log[k][j]
                             /\ <<x.shift_date, x.label, x.start_time, x.end_time>> = k]_vars

\* C15 witness: a v2 run has returned its run id with a shift of two places for
\* which one employee was eligible, who was picked
C15_Witness ==
  /\ generator_version = "v2"
  /\ pc = "done"
  /\ \E x \in db.schedule_runs : x.schedule_run_id = run.schedule_run_id
  /\ \E k \in DOMAIN audit_shift :
       /\ audit_shift[k].required_count = 2
       /\ audit_shift[k].candidate_count = 1
       /\ audit_shift[k].missing_count = 1
       /\ Len(picked_log[k]) = 1

\* two sessions are open, for different studios
DifferentStudios == other.pc # "none" /\ run.studio_id # other.run.studio_id

\* the AssignedShift rows a session stores for its rows under its run id
StoredRows(r, rows) ==
  {[scheduled_shift_id |-> <<r.schedule_run_id, i>>,
    schedule_run_id |-> r.schedule_run_id,
    studio_id   |-> r.studio_id,
    employee_id |-> rows[i].employee_id,
    shift_date  |-> rows[i].shift_date,
    day_of_week |-> rows[i].day_of_week,
    label       |-> rows[i].label,
    start_time  |-> rows[i].start_time,
    end_time    |-> rows[i].end_time] : i \in 1..Len(rows)}

\* C17: independent runs. While two runs for different studios, sharing the
\* employees, execute with their database statements interleaved in any order,
\* no step changes the demand or the employees either run reads; a statement
\* of one run leaves the other run's working schedule, running totals, date
\* index and every other local value as they were, and leaves the other
\* studio's rows and every other run's audit rows in the database as they
\* were; and the commit of a run removes and adds exactly what it removes and
\* adds when it executes alone: it removes the rows of its own studio and
\* range that are there at the commit (none without overwrite) and adds its
\* own rows and audit rows under its own run id.
C17_IndependentRuns ==
  [][DifferentStudios =>
       /\ db'.shift_instances = db.shift_instances
       /\ db'.employees = db.employees
       /\ IF run'.studio_id = run.studio_id
          THEN /\ other' = other
               /\ {x \in db'.scheduled_shifts : x.studio_id # run.studio_id}
                    = {x \in db.scheduled_shifts : x.studio_id # run.studio_id}
               /\ \A id \in DOMAIN db.schedule_audit_shift :
                    id # run'.schedule_run_id =>
                      /\ db'.schedule_audit_shift[id] = db.schedule_audit_shift[id]
                      /\ db'.schedule_audit_candidate[id] = db.schedule_audit_candidate[id]
               /\ IF CommitStep
                  THEN /\ db'.scheduled_shifts =
                            (db.scheduled_shifts \
                               (IF run.overwrite THEN TargetRows(db.scheduled_shifts, run)
                                                 ELSE {}))
                            \cup StoredRows(run, scheduled_rows')
                       /\ db'.schedule_audit_shift[run.schedule_run_id] = audit_shift
                       /\ db'.schedule_audit_candidate[run.schedule_run_id] = audit_candidate
                  ELSE db' = db
          ELSE /\ db' = db
               /\ other'.run = run
               /\ other'.scheduled_shifts = scheduled_shifts
               /\ other'.minutes_by_emp = minutes_by_emp
               /\ other'.shifts_by_date_by_emp = shifts_by_date_by_emp
               /\ scheduled_shifts' = other.scheduled_shifts
               /\ minutes_by_emp' = other.minutes_by_emp
               /\ shifts_by_date_by_emp' = other.shifts_by_date_by_emp]_vars

\* C17 witness: two runs with overwrite = true for different studios have both
\* committed after an interleaved execution, each had matched rows of its own
\* studio with its DELETE, and the database holds rows of both run ids
C17_Witness ==
  /\ pc = "done"
  /\ other.pc = "done"
  /\ history.interleaved
  /\ run.studio_id # other.run.studio_id
  /\ run.overwrite /\ other.run.overwrite
  /\ run.deleted # {} /\ other.run.deleted # {}
  /\ \E x \in db.scheduled_shifts : x.schedule_run_id = run.schedule_run_id
  /\ \E x \in db.scheduled_shifts : x.schedule_run_id = other.run.schedule_run_id

\* both requests, with overwrite = true for the same studio and date range,
\* have committed; the rows of the studio in the range carry both run ids and
\* a shift of the demand has more rows than its required_count
OverwriteRace ==
  /\ pc = "done"
  /\ other.pc = "done"
  /\ run.overwrite
  /\ other.run.overwrite
  /\ run.studio_id = other.run.studio_id
  /\ run.month_start = other.run.month_start
  /\ run.month_end = other.run.month_end
  /\ LET target == TargetRows(db.scheduled_shifts, run)
     IN  /\ \E x \in target : x.schedule_run_id = run.schedule_run_id
         /\ \E x \in target : x.schedule_run_id = other.run.schedule_run_id
         /\ \E i \in 1..Len(demand) :
              Cardinality({x \in target :
                             <<x.shift_date, x.label, x.start_time, x.end_time>>
                               = ShiftKey(demand[i])})
                > demand[i].required_count

\* C18: overwrite race. With the two runs serialized, the state in which both
\* runs with overwrite = true for the same studio and range have committed,
\* the rows of the studio in the range carry two run ids and a shift has more
\* rows than its required_count is unreachable: it is reached only by an
\* execution in which the statements of the two runs interleave (the witness
\* is such an execution).
C18_OverwriteRace == OverwriteRace => history.interleaved

\* C18 witness: an interleaving after which both runs have committed, the rows
\* of the range carry two run ids and a shift has more rows than places
C18_Witness == OverwriteRace /\ history.interleaved

\* none of the eight listed rules is violated by employee eid and the shift
\* row against the tracking state T: PTO, time off, availability coverage,
\* unavailability overlap, overlap with an assigned shift, duration over 10
\* hours, rest under 12 hours, more than 6 consecutive days
EightRulesHold(T, eid, row) ==
  /\ PtoReasons(eid, row.shift_date) = <<>>
  /\ TimeOffReasons(eid, row.shift_date) = <<>>
  /\ AvailabilityReasons(eid, row.day_of_week, RowStart(row), RowEnd(row)) = <<>>
  /\ UnavailabilityReasons(eid, row.day_of_week, RowStart(row), RowEnd(row)) = <<>>
  /\ OverlapReasons(T.asg[eid], row.shift_date, RowStart(row), RowEnd(row)) = <<>>
  /\ ShiftLengthReasons(RowStart(row), RowEnd(row)) = <<>>
  /\ RestReasons(T.asg[eid], row.shift_date, RowStart(row), RowEnd(row)) = <<>>
  /\ ConsecutiveReasons(T.sbd[eid], row.shift_date) = <<>>

\* C19: the v2 validator returns eligible = true for an (employee, shift) pair
\* exactly when none of the eight listed rules is violated against the
\* employee's current assigned shifts; no other condition makes an employee
\* ineligible.
C19_EligibleIffEightRules ==
  generator_version = "v2" =>
    \A i \in 1..Len(demand) : \A j \in 1..Len(employees) :
      RowValid(Tracking, employees[j], demand[i])
        <=> EightRulesHold(Tracking, employees[j], demand[i])

\* the tags of the violated rules among the eight, in the order PTO, time off,
\* availability, unavailability, overlap, shift length, rest, consecutive days
EightRuleTags(T, eid, row) ==
  PtoReasons(eid, row.shift_date)
    \o TimeOffReasons(eid, row.shift_date)
    \o AvailabilityReasons(eid, row.day_of_week, RowStart(row), RowEnd(row))
    \o UnavailabilityReasons(eid, row.day_of_week, RowStart(row), RowEnd(row))
    \o OverlapReasons(T.asg[eid], row.shift_date, RowStart(row), RowEnd(row))
    \o ShiftLengthReasons(RowStart(row), RowEnd(row))
    \o RestReasons(T.asg[eid], row.shift_date, RowStart(row), RowEnd(row))
    \o ConsecutiveReasons(T.sbd[eid], row.shift_date)

\* C20: the v2 validator checks every rule on every call and returns a tag for
\* each violated rule in the fixed order PTO, time off, availability,
\* unavailability, overlap, shift length, rest, consecutive days; hence the
\* candidate audit record the greedy loop writes for a shift and an employee
\* lists exactly those tags in that order, and its rejection_reason is the tag
\* of the earliest rule in that order that the pair violates (none when the
\* pair violates no rule). The validator is called on the tracking state at
\* the time the record is written.
C20_FixedOrder ==
  [][(pc = "greedy" /\ loop.i <= Len(demand_sorted) /\ other' = other) =>
       LET row == demand_sorted[loop.i]
           T   == [sched |-> scheduled_shifts', asg |-> assigned_shifts_by_emp',
                   sbd |-> shifts_by_date_by_emp', mins |-> minutes_by_emp']
       IN  \A j \in 1..Len(employees) :
             LET rec  == audit_candidate'[CandidateKey(row, employees[j])]
                 tags == EightRuleTags(T, employees[j], row)
             IN  /\ rec.hard_reasons = tags
                 /\ rec.rejection_reason = IF Len(tags) = 0 THEN NoneValue ELSE tags[1]]_vars

\* the repair pass is at its start with exactly one full-time employee under
\* the 30 hour target and one part-time employee over their ideal, who holds
\* a shift the validator accepts for the full-time employee, whose loss leaves
\* the part-time employee's weekly hours (minutes / 60 / 4.33) at 70% of the
\* ideal or more and whose gain leaves the full-time employee's at 40 or less
RepairScenario ==
  /\ pc = "repair"
  /\ loop = [ft |-> 1, pt |-> 1, swap_count |-> 0]
  /\ Len(ft_under_target) = 1
  /\ Len(pt_over_ideal) = 1
  /\ LET F == ft_under_target[1].eid
         P == pt_over_ideal[1].eid
     IN  \E i \in HeldBy(P) :
           LET S == scheduled_shifts[i]
           IN  /\ Valid(assigned_shifts_by_emp, shifts_by_date_by_emp, F,
                        S.shift_date, S.dow, S.s_m, S.e_m)
               /\ 1000 * (minutes_by_emp[P] - (S.e_m - S.s_m))
                    >= 181860 * profiles[P].ideal_hours_weekly
               /\ 100 * (minutes_by_emp[F] + (S.e_m - S.s_m)) <= 1039200

\* C16: repair scenario. If at the start of the repair pass there is exactly
\* one full-time employee F under the 30 hour weekly target and one part-time
\* employee P over their ideal weekly hours, and P holds a shift S the
\* validator accepts for F such that P's weekly hours after losing S are at
\* least 70% of P's ideal and F's weekly hours after gaining S are at most 40,
\* then the repair pass ends with F holding a shift that P held at its start
\* and that P no longer holds.
C16_RepairScenario ==
  [][RepairScenario =>
       LET F == ft_under_target[1].eid
           P == pt_over_ideal[1].eid
       IN  /\ pc' = "repair"
           /\ ~RepairPending'
           /\ \E i \in HeldBy(P) :
                /\ scheduled_shifts'[i] = [scheduled_shifts[i] EXCEPT !.eid = F]
                /\ \A k \in 1..Len(scheduled_shifts') :
                     scheduled_shifts'[k].eid = P =>
                       <<scheduled_shifts'[k].shift_date, scheduled_shifts'[k].label,
                         scheduled_shifts'[k].s_m, scheduled_shifts'[k].e_m>>
                         # <<scheduled_shifts[i].shift_date, scheduled_shifts[i].label,
                             scheduled_shifts[i].s_m, scheduled_shifts[i].e_m>>
                /\ minutes_by_emp'[F] = HeldMinutes(scheduled_shifts', F)
                /\ minutes_by_emp'[P] = HeldMinutes(scheduled_shifts', P)]_vars

\* C16 witness: the repair pass has ended after one reassignment; the
\* full-time employee holds a Sunday shift and is still under the target
C16_Witness ==
  /\ pc = "repair"
  /\ Len(ft_under_target) = 1
  /\ Len(pt_over_ideal) = 1
  /\ loop.swap_count = 1
  /\ ~RepairPending
  /\ \E i \in HeldBy(ft_under_target[1].eid) : scheduled_shifts[i].dow = 0
  /\ HeldBy(pt_over_ideal[1].eid) # {}

\* the half-open intervals of two shifts intersect on the absolute timeline
\* date * 1440 + minute
AbsIntersect(date_a, start_a, end_a, date_b, start_b, end_b) ==
  /\ date_a * 1440 + start_a < date_b * 1440 + end_b
  /\ date_b * 1440 + start_b < date_a * 1440 + end_a

\* C21: the overlap rule of the v2 validator reports a violation exactly when
\* the candidate shift's interval and the interval of some shift the employee
\* already holds intersect on one absolute timeline (date * 1440 + minute,
\* half-open intervals); two shifts on adjacent dates that do not intersect on
\* that timeline are not reported as overlapping.
C21_OverlapAbsoluteTimeline ==
  generator_version = "v2" =>
    \A i \in 1..Len(demand) : \A j \in 1..Len(employees) :
      LET row == demand[i]
          e   == employees[j]
      IN  (OverlapReasons(assigned_shifts_by_emp[e], row.shift_date,
                          RowStart(row), RowEnd(row)) # <<>>)
            <=> \E k \in 1..Len(assigned_shifts_by_emp[e]) :
                  AbsIntersect(assigned_shifts_by_emp[e][k].shift_date,
                               assigned_shifts_by_emp[e][k].start_m,
                               assigned_shifts_by_emp[e][k].end_m,
                               row.shift_date, RowStart(row), RowEnd(row))

\* the rest rule reports candidate row a for an employee who holds only row b
RestReported(a, b) ==
  RestReasons(<<AssignedShift(b.shift_date, RowStart(b), RowEnd(b), b.label)>>,
              a.shift_date, RowStart(a), RowEnd(a)) # <<>>

\* minutes between the end of the earlier and the start of the later of two
\* rows that do not intersect on the absolute timeline
GapMinutes(a, b) ==
  IF a.shift_date * 1440 + RowEnd(a) <= b.shift_date * 1440 + RowStart(b)
  THEN (b.shift_date * 1440 + RowStart(b)) - (a.shift_date * 1440 + RowEnd(a))
  ELSE (a.shift_date * 1440 + RowStart(a)) - (b.shift_date * 1440 + RowEnd(b))

\* C22: the rest rule of the v2 validator is symmetric. For any two shifts A
\* and B of the demand that do not overlap, on the same date or on adjacent
\* dates in either direction, candidate A against an employee who holds only B
\* is reported for insufficient rest exactly when candidate B against an
\* employee who holds only A is, and exactly when the gap between them is
\* under 12 hours.
C22_RestSymmetric ==
  generator_version = "v2" =>
    \A i \in 1..Len(demand) : \A k \in 1..Len(demand) :
      LET a == demand[i]
          b == demand[k]
      IN  (/\ a.shift_date - b.shift_date \in {-1, 0, 1}
           /\ ~AbsIntersect(a.shift_date, RowStart(a), RowEnd(a),
                            b.shift_date, RowStart(b), RowEnd(b)))
            => /\ RestReported(a, b) <=> RestReported(b, a)
               /\ RestReported(a, b)
                    <=> GapMinutes(a, b) < MIN_REST_BETWEEN_SHIFTS_MINUTES

\* one availability window of employee e for the day of week contains the shift
CoveredByOneWindow(e, dow, start_m, end_m) ==
  \E w \in SeqToSet(avail_by_emp_dow[e][dow]) : w[1] <= start_m /\ w[2] >= end_m

\* two windows of the day cover the shift together and no single one does
CoveredInUnionOnly(e, dow, start_m, end_m) ==
  /\ ~CoveredByOneWindow(e, dow, start_m, end_m)
  /\ \E v, w \in SeqToSet(avail_by_emp_dow[e][dow]) :
       v[1] <= start_m /\ start_m < v[2] /\ w[1] <= v[2] /\ w[2] >= end_m

\* C23: availability rule. In both generators an employee passes the
\* availability check for a shift exactly when a single availability window of
\* the employee for the shift's day of week has start <= shift start and
\* end >= shift end; an employee with no window for that day, with only
\* partially overlapping windows, or whose windows cover the shift only in
\* union, is ineligible and is never assigned that shift.
C23_AvailabilityRule ==
  /\ \A i \in 1..Len(demand) : \A j \in 1..Len(employees) :
       LET row     == demand[i]
           e       == employees[j]
           covered == CoveredByOneWindow(e, row.day_of_week, RowStart(row), RowEnd(row))
           reasons == IF generator_version = "v2"
                      THEN RowReasons(Tracking, e, row)
                      ELSE eligibility(e, row.shift_date, row.day_of_week,
                                       RowStart(row), RowEnd(row))
       IN  /\ covered <=> "no_availability_coverage" \notin SeqToSet(reasons)
           /\ ~covered => Len(reasons) > 0
  /\ \A i \in 1..Len(scheduled_shifts) :
       CoveredByOneWindow(scheduled_shifts[i].eid, scheduled_shifts[i].dow,
                          scheduled_shifts[i].s_m, scheduled_shifts[i].e_m)
  /\ \A i \in 1..Len(scheduled_rows) :
       CoveredByOneWindow(scheduled_rows[i].employee_id, scheduled_rows[i].day_of_week,
                          ToMinutes(scheduled_rows[i].start_time),
                          ToMinutes(scheduled_rows[i].end_time))

\* C23 witness: a finished run in which an employee holds a shift, has no
\* window on the day of a second shift of the demand, and has windows that
\* cover a third shift only in union
C23_Witness ==
  /\ pc = "done"
  /\ \E j \in 1..Len(employees) :
       LET e == employees[j]
       IN  /\ \E i \in 1..Len(scheduled_rows) : scheduled_rows[i].employee_id = e
           /\ \E i \in 1..Len(demand) :
                CoveredInUnionOnly(e, demand[i].day_of_week,
                                   RowStart(demand[i]), RowEnd(demand[i]))
  /\ \E j \in 1..Len(employees) : \E i \in 1..Len(demand) :
       avail_by_emp_dow[employees[j]][demand[i].day_of_week] = <<>>

\* C24: the consecutive-day rule of the v2 validator counts only dates on
\* which the employee currently holds a shift: the per-employee date index has
\* a date as key exactly when the employee's current assigned shifts include
\* one on that date, also after the repair pass, the preference-swap pass and
\* the optimizer have removed or moved shifts.
C24_DateIndexExact ==
  generator_version = "v2" =>
    \A j \in 1..Len(employees) :
      DictKeys(shifts_by_date_by_emp[employees[j]])
        = {scheduled_shifts[i].shift_date : i \in HeldBy(employees[j])}

\* the position of a shift in the demand as loaded, ordered by (date, start time)
LoadPosition(row) == CHOOSE i \in 1..Len(demand) : demand[i] = row

\* C25: greedy ordering. Before any assignment is made the v2 builder fixes
\* the processing order: a rearrangement of the demand in which no shift comes
\* before a shift with a strictly smaller number of employees hard-eligible on
\* the empty schedule, and shifts with equal counts keep their (date, start
\* time) input order. The order never changes afterwards, and each step of the
\* greedy loop processes the next shift of that order and no other.
C25_GreedyOrdering ==
  [][(generator_version = "v2" /\ other' = other) =>
       /\ pc = "count" =>
            /\ scheduled_shifts = <<>>
            /\ Len(demand_sorted') = Len(demand)
            /\ SeqToSet(demand_sorted') = SeqToSet(demand)
            /\ \A a, b \in 1..Len(demand_sorted') :
                 a < b =>
                   LET ca == Cardinality(EligibleAtStart(demand_sorted'[a]))
                       cb == Cardinality(EligibleAtStart(demand_sorted'[b]))
                   IN  /\ ca <= cb
                       /\ ca = cb => LoadPosition(demand_sorted'[a])
                                       < LoadPosition(demand_sorted'[b])
       /\ pc \notin {"start", "overwrite", "load", "count"} =>
            demand_sorted' = demand_sorted
       /\ (pc = "greedy" /\ loop.i <= Len(demand_sorted)) =>
            LET row == demand_sorted[loop.i]
            IN  /\ pc' = "greedy"
                /\ loop'.i = loop.i + 1
                /\ DOMAIN picked_log = {ShiftKey(demand_sorted[k]) : k \in 1..(loop.i - 1)}
                /\ DOMAIN picked_log' = DOMAIN picked_log \cup {ShiftKey(row)}
                /\ SubSeq(scheduled_shifts', 1, Len(scheduled_shifts)) = scheduled_shifts
                /\ \A k \in (Len(scheduled_shifts) + 1)..Len(scheduled_shifts') :
                     <<scheduled_shifts'[k].shift_date, scheduled_shifts'[k].label,
                       scheduled_shifts'[k].s_m, scheduled_shifts'[k].e_m>>
                       = <<row.shift_date, row.label, RowStart(row), RowEnd(row)>>]_vars

\* C25 witness: a finished v2 run whose processing order differs from the load
\* order and holds two shifts with equal initial counts
C25_Witness ==
  /\ generator_version = "v2"
  /\ pc = "done"
  /\ demand_sorted # demand
  /\ \E a, b \in 1..Len(demand_sorted) :
       /\ a < b
       /\ Cardinality(EligibleAtStart(demand_sorted[a]))
            = Cardinality(EligibleAtStart(demand_sorted[b]))
  /\ \E a \in 1..Len(demand_sorted) :
       Cardinality(EligibleAtStart(demand_sorted[a])) = 0

\* C26: greedy selection. For each shift the v2 builder picks
\* min(required_count, number of eligible employees) employees, all of them
\* hard-eligible against the schedule state of the moment, and no eligible
\* employee left unpicked has a strictly higher score than a picked one; with
\* the step the picks are in the working schedule, the running totals and the
\* date index, and nothing else of the tracking state has changed.
C26_GreedySelection ==
  [][(pc = "greedy" /\ loop.i <= Len(demand_sorted) /\ other' = other) =>
       LET row      == demand_sorted[loop.i]
           eligible == HardEligible(row)
           added    == (Len(scheduled_shifts) + 1)..Len(scheduled_shifts')
           picked   == {scheduled_shifts'[k].eid : k \in added}
           a        == AssignedShift(row.shift_date, RowStart(row), RowEnd(row), row.label)
       IN  /\ SubSeq(scheduled_shifts', 1, Len(scheduled_shifts)) = scheduled_shifts
           /\ Cardinality(added) = IF row.required_count < Cardinality(eligible)
                                   THEN row.required_count ELSE Cardinality(eligible)
           /\ Cardinality(picked) = Cardinality(added)
           /\ picked \subseteq eligible
           /\ \A k \in added :
                scheduled_shifts'[k] =
                  ScheduledShift(scheduled_shifts'[k].eid, row.shift_date, row.day_of_week,
                                 row.label, RowStart(row), RowEnd(row))
           /\ \A p \in picked : \A u \in eligible \ picked :
                ~ScoreGT(RowScore(Tracking, u, row), RowScore(Tracking, p, row))
           /\ \A e \in SeqToSet(employees) :
                IF e \in picked
                THEN /\ minutes_by_emp'[e] = minutes_by_emp[e] + (RowEnd(row) - RowStart(row))
                     /\ assigned_shifts_by_emp'[e] = Append(assigned_shifts_by_emp[e], a)
                     /\ DictGet(shifts_by_date_by_emp'[e], row.shift_date)
                          = Append(DictGet(shifts_by_date_by_emp[e], row.shift_date), a)
                     /\ DictKeys(shifts_by_date_by_emp'[e])
                          = DictKeys(shifts_by_date_by_emp[e]) \cup {row.shift_date}
                ELSE /\ minutes_by_emp'[e] = minutes_by_emp[e]
                     /\ assigned_shifts_by_emp'[e] = assigned_shifts_by_emp[e]
                     /\ shifts_by_date_by_emp'[e] = shifts_by_date_by_emp[e]]_vars

\* C26 witness: the greedy loop has picked one of two eligible employees of
\* different scores for a shift, the later one in employee order, and a later
\* shift has seen the pick in the running totals
C26_Witness ==
  /\ generator_version = "v2"
  /\ pc = "greedy"
  /\ loop.i > 2
  /\ Len(employees) = 2
  /\ \E k \in DOMAIN audit_shift :
       /\ audit_shift[k].required_count = 1
       /\ audit_shift[k].candidate_count = 2
       /\ picked_log[k] = <<employees[2]>>

\* C27: repair guard. The repair pass starts with the lists of the full-time
\* employees under the 30 hour target and of the part-time employees over
\* their ideal (weekly hours = minutes / 60 / 4.33) and never changes them;
\* every step of the pass that changes the schedule moves one shift from a
\* part-time employee of the second list to a full-time employee of the first,
\* and at the moment of the move the validator accepts the full-time employee
\* for that shift, the part-time employee's weekly hours after the removal
\* are at least 70% of their ideal and the full-time employee's weekly hours
\* after the addition are at most 40.
C27_RepairGuard ==
  [][(generator_version = "v2" /\ other' = other) =>
       /\ (pc = "greedy" /\ pc' = "repair") =>
            /\ {ft_under_target'[k].eid : k \in 1..Len(ft_under_target')}
                 = {e \in SeqToSet(employees) :
                      /\ profiles[e].employment_type = "full_time"
                      /\ 100 * minutes_by_emp[e] < 779400}
            /\ {pt_over_ideal'[k].eid : k \in 1..Len(pt_over_ideal')}
                 = {e \in SeqToSet(employees) :
                      /\ profiles[e].employment_type = "part_time"
                      /\ profiles[e].ideal_hours_weekly # 0
                      /\ 100 * minutes_by_emp[e] > 25980 * profiles[e].ideal_hours_weekly}
       /\ pc = "repair" =>
            /\ (pc' = "repair" =>
                  ft_under_target' = ft_under_target /\ pt_over_ideal' = pt_over_ideal)
            /\ (pc' = "repair" /\ scheduled_shifts' # scheduled_shifts) =>
                 \E i \in 1..Len(scheduled_shifts) :
                   LET S == scheduled_shifts[i]
                       P == S.eid
                       F == scheduled_shifts'[i].eid
                       d == S.e_m - S.s_m
                   IN  /\ scheduled_shifts' = [scheduled_shifts EXCEPT ![i].eid = F]
                       /\ P \in {pt_over_ideal[k].eid : k \in 1..Len(pt_over_ideal)}
                       /\ F \in {ft_under_target[k].eid : k \in 1..Len(ft_under_target)}
                       /\ profiles[P].employment_type = "part_time"
                       /\ profiles[F].employment_type = "full_time"
                       /\ Valid(assigned_shifts_by_emp, shifts_by_date_by_emp, F,
                                S.shift_date, S.dow, S.s_m, S.e_m)
                       /\ 1000 * (minutes_by_emp[P] - d)
                            >= 181860 * profiles[P].ideal_hours_weekly
                       /\ 100 * (minutes_by_emp[F] + d) <= 1039200]_vars

\* C27 witness: the repair pass has moved a shift to the full-time employee,
\* and the part-time employee still holds shifts the validator rejects for the
\* full-time employee
C27_Witness ==
  /\ pc = "repair"
  /\ loop.swap_count = 1
  /\ Len(ft_under_target) = 1
  /\ Len(pt_over_ideal) = 1
  /\ \E i \in HeldBy(pt_over_ideal[1].eid) :
       ~Valid(assigned_shifts_by_emp, shifts_by_date_by_emp, ft_under_target[1].eid,
              scheduled_shifts[i].shift_date, scheduled_shifts[i].dow,
              scheduled_shifts[i].s_m, scheduled_shifts[i].e_m)

\* the nested loops of the repair pass have ended
RepairEnded == pc = "repair" /\ ~RepairPending

PreferredDow(pref) == IF pref = "saturday" THEN 6 ELSE 0

OppositeDow(pref) == IF pref = "saturday" THEN 0 ELSE 6

\* entries i and j of the schedule have exchanged their shifts, the employees
\* staying in place, and no other entry has changed
ExchangedAt(i, j) ==
  /\ Len(scheduled_shifts') = Len(scheduled_shifts)
  /\ scheduled_shifts'[i] = [scheduled_shifts[j] EXCEPT !.eid = scheduled_shifts[i].eid]
  /\ scheduled_shifts'[j] = [scheduled_shifts[i] EXCEPT !.eid = scheduled_shifts[j].eid]
  /\ \A k \in 1..Len(scheduled_shifts) :
       k \notin {i, j} => scheduled_shifts'[k] = scheduled_shifts[k]

\* employee eid, holding shift own, may take shift their for it
SwapGuardFor(eid, own, their) ==
  LET pref == profiles[eid].weekend_preference
  IN  /\ pref \in {"saturday", "sunday"}
      /\ own.dow = OppositeDow(pref)
      /\ their.dow = PreferredDow(pref)
      /\ check_hard_constraints(assigned_shifts_by_emp, shifts_by_date_by_emp, eid,
                                their.shift_date, their.dow, their.s_m, their.e_m) = <<>>
      /\ profiles[eid].employment_type = "full_time" =>
           100 * (minutes_by_emp[eid] - (own.e_m - own.s_m) + (their.e_m - their.s_m))
             >= 30 * 25980

C29_PrefSwapGuard ==
  [][(generator_version = "v2" /\ other' = other /\ pc = "prefswap"
        /\ scheduled_shifts' # scheduled_shifts) =>
       \E i, j \in 1..Len(scheduled_shifts) :
         /\ i < j
         /\ scheduled_shifts[i].eid # scheduled_shifts[j].eid
         /\ ExchangedAt(i, j)
         /\ SwapGuardFor(scheduled_shifts[i].eid, scheduled_shifts[i], scheduled_shifts[j])
         /\ SwapGuardFor(scheduled_shifts[j].eid, scheduled_shifts[j], scheduled_shifts[i])]_vars

\* the scan has just exchanged entries i and j: both employees now hold their
\* preferred weekend day
C29_Witness ==
  /\ generator_version = "v2"
  /\ pc = "prefswap"
  /\ loop.weekend_swap_count = 1
  /\ \E i, j \in 1..Len(scheduled_shifts) :
       /\ i < j
       /\ loop.i = i + 1
       /\ scheduled_shifts[i].eid # scheduled_shifts[j].eid
       /\ \A k \in {i, j} :
            /\ HasSpecificPreference(profiles[scheduled_shifts[k].eid])
            /\ MatchesPreference(profiles[scheduled_shifts[k].eid].weekend_preference,
                                 scheduled_shifts[k].dow)

(***************************************************************************)
(* C30: the preference-swap pass stops after the first full scan of the    *)
(* schedule that performs no exchange, and the total number of exchanges   *)
(* it performs in one run never exceeds the swap-count ceiling             *)
(* max_weekend_swaps (50).                                                 *)
(***************************************************************************)
C30_PrefSwapCeiling ==
  /\ [][(generator_version = "v2" /\ other' = other /\ pc = "prefswap") =>
          \* an exchange is counted once
          /\ scheduled_shifts' # scheduled_shifts =>
               /\ pc' = "prefswap"
               /\ loop'.weekend_swap_count = loop.weekend_swap_count + 1
          \* a step without an exchange is the end of a scan: the pass goes on
          \* with a new scan only if the scan it ends has exchanged
          /\ scheduled_shifts' = scheduled_shifts =>
               /\ ~loop.swapped => pc' # "prefswap"
               /\ pc' = "prefswap" =>
                    /\ loop'.weekend_swap_count = loop.weekend_swap_count
                    /\ ~loop'.swapped]_vars
  /\ [](pc = "prefswap" => loop.weekend_swap_count <= 50)

(***************************************************************************)
(* C31: every exchange made by the preference-swap pass leaves both        *)
(* employees holding the exchanged weekend shift on their preferred day,   *)
(* so the number of weekend assignments that are on the day opposite to    *)
(* their holder's specific preference decreases by exactly 2 with each     *)
(* exchange and never increases during the pass.                           *)
(***************************************************************************)
\* entry sh is a weekend assignment whose holder has a specific preference
OnPreferredDay(sh) ==
  /\ profiles[sh.eid].weekend_preference \in {"saturday", "sunday"}
  /\ sh.dow = (IF profiles[sh.eid].weekend_preference = "saturday" THEN 6 ELSE 0)

OnOppositeDay(sh) ==
  /\ profiles[sh.eid].weekend_preference \in {"saturday", "sunday"}
  /\ sh.dow = (IF profiles[sh.eid].weekend_preference = "saturday" THEN 0 ELSE 6)

OppositeCount(sched) == Cardinality({k \in 1..Len(sched) : OnOppositeDay(sched[k])})

C31_PrefSwapProgress ==
  [][(generator_version = "v2" /\ other' = other /\ pc = "prefswap") =>
       /\ scheduled_shifts' # scheduled_shifts =>
            /\ OppositeCount(scheduled_shifts') = OppositeCount(scheduled_shifts) - 2
            /\ \A k \in 1..Len(scheduled_shifts) :
                 scheduled_shifts'[k] # scheduled_shifts[k] =>
                   /\ scheduled_shifts'[k].eid = scheduled_shifts[k].eid
                   /\ OnOppositeDay(scheduled_shifts[k])
                   /\ OnPreferredDay(scheduled_shifts'[k])
       /\ OppositeCount(scheduled_shifts') <= OppositeCount(scheduled_shifts)]_vars

\* the pass has made an exchange: two weekend assignments are on their holder's
\* preferred day and none is left on the opposite day
C31_Witness ==
  /\ generator_version = "v2"
  /\ pc = "prefswap"
  /\ loop.weekend_swap_count = 1
  /\ OppositeCount(scheduled_shifts) = 0
  /\ Cardinality({k \in 1..Len(scheduled_shifts) : OnPreferredDay(scheduled_shifts[k])}) >= 2

(***************************************************************************)
(* C32: in each of its attempts the optimizer exchanges the employees of   *)
(* two sampled assignments only if the two assignments belong to different *)
(* employees, the validator (on the schedule state at that attempt)        *)
(* accepts each employee for the other's shift, and the sum of the two     *)
(* employees' soft scores after the hypothetical exchange is strictly      *)
(* greater than the sum before; otherwise the working schedule, the        *)
(* running totals and the date index are left unchanged by the attempt.    *)
(***************************************************************************)
\* the score of employee eid for the shift of entry sh with running total minutes
EntryScore(eid, sh, minutes) ==
  calculate_score(shifts_by_date_by_emp, eid, sh.shift_date, sh.dow, sh.s_m, sh.e_m,
                  sh.label, minutes)

\* the validator accepts eid for the shift of entry sh on the current state
EntryAccepted(eid, sh) ==
  check_hard_constraints(assigned_shifts_by_emp, shifts_by_date_by_emp, eid,
                         sh.shift_date, sh.dow, sh.s_m, sh.e_m) = <<>>

\* entries idx1 and idx2 have exchanged their employees and no other entry has changed
EmployeesExchangedAt(idx1, idx2) ==
  /\ Len(scheduled_shifts') = Len(scheduled_shifts)
  /\ scheduled_shifts'[idx1] = [scheduled_shifts[idx1] EXCEPT !.eid = scheduled_shifts[idx2].eid]
  /\ scheduled_shifts'[idx2] = [scheduled_shifts[idx2] EXCEPT !.eid = scheduled_shifts[idx1].eid]
  /\ \A k \in 1..Len(scheduled_shifts) :
       k \notin {idx1, idx2} => scheduled_shifts'[k] = scheduled_shifts[k]

StrictlyBetter(idx1, idx2) ==
  LET sh1 == scheduled_shifts[idx1]
      sh2 == scheduled_shifts[idx2]
      m1  == minutes_by_emp[sh1.eid]
      m2  == minutes_by_emp[sh2.eid]
      d1  == sh1.e_m - sh1.s_m
      d2  == sh2.e_m - sh2.s_m
      b1  == EntryScore(sh1.eid, sh1, m1)
      b2  == EntryScore(sh2.eid, sh2, m2)
      a1  == EntryScore(sh1.eid, sh2, m1 - d1 + d2)
      a2  == EntryScore(sh2.eid, sh1, m2 - d2 + d1)
  IN  \* (a1 + a2) - (b1 + b2) > 0, each score being pos - neg
      BigLess(BigAdd(BigAdd(b1.pos, b2.pos), BigAdd(a1.neg, a2.neg)),
              BigAdd(BigAdd(a1.pos, a2.pos), BigAdd(b1.neg, b2.neg)))

C32_OptimizerAcceptance ==
  [][(generator_version = "v2" /\ other' = other /\ pc = "optimize" /\ pc' = "optimize") =>
       \/ UNCHANGED tracking
       \/ \E idx1, idx2 \in 1..Len(scheduled_shifts) :
            /\ idx1 # idx2
            /\ scheduled_shifts[idx1].eid # scheduled_shifts[idx2].eid
            /\ EmployeesExchangedAt(idx1, idx2)
            /\ EntryAccepted(scheduled_shifts[idx2].eid, scheduled_shifts[idx1])
            /\ EntryAccepted(scheduled_shifts[idx1].eid, scheduled_shifts[idx2])
            /\ StrictlyBetter(idx1, idx2)]_vars

\* the first attempt has exchanged: no earlier pass reassigns in this run (no
\* part-time employee over ideal, no two opposite weekend preferences), and an
\* employee's list of assigned shifts ends with a shift that stands in the
\* schedule before another shift of theirs
C32_Witness ==
  /\ generator_version = "v2"
  /\ pc = "optimize"
  /\ loop.attempt = 1
  /\ pt_over_ideal = <<>>
  /\ ~\E e1, e2 \in SeqToSet(employees) :
        /\ profiles[e1].weekend_preference = "saturday"
        /\ profiles[e2].weekend_preference = "sunday"
  /\ \E i, j \in 1..Len(scheduled_shifts) :
       LET sh   == scheduled_shifts[i]
           held == assigned_shifts_by_emp[sh.eid]
       IN  /\ i < j
           /\ scheduled_shifts[j].eid = sh.eid
           /\ Len(held) >= 2
           /\ held[Len(held)].shift_date = sh.shift_date
           /\ held[Len(held)].start_m = sh.s_m
           /\ held[Len(held)].end_m = sh.e_m

(***************************************************************************)
(* C33: the repair pass, the preference-swap pass and the optimizer change *)
(* only which employee holds a shift: for every shift (date, label, start, *)
(* end) the number of assignments is the same after each of their          *)
(* operations as before it, and the total number of assignments in the     *)
(* working schedule is unchanged.                                          *)
(***************************************************************************)
ShiftOf(sh) == <<sh.shift_date, sh.label, sh.s_m, sh.e_m>>

Headcount(sched, shift) == Cardinality({k \in 1..Len(sched) : ShiftOf(sched[k]) = shift})

C33_HeadcountPreserved ==
  [][(generator_version = "v2" /\ other' = other /\ pc \in {"repair", "prefswap", "optimize"}) =>
       /\ Len(scheduled_shifts') = Len(scheduled_shifts)
       /\ \A shift \in {ShiftOf(scheduled_shifts[k]) : k \in 1..Len(scheduled_shifts)}
                         \cup {ShiftOf(scheduled_shifts'[k]) : k \in 1..Len(scheduled_shifts')} :
            Headcount(scheduled_shifts', shift) = Headcount(scheduled_shifts, shift)]_vars

\* after the last attempt of the optimizer: one of the three passes has handed
\* an employee a shift that stands in the schedule before a shift they already
\* held
C33_Witness ==
  /\ generator_version = "v2"
  /\ pc = "optimize"
  /\ ~OptimizerPending
  /\ \E i, j \in 1..Len(scheduled_shifts) :
       LET sh   == scheduled_shifts[i]
           held == assigned_shifts_by_emp[sh.eid]
       IN  /\ i < j
           /\ scheduled_shifts[j].eid = sh.eid
           /\ Len(held) >= 2
           /\ held[Len(held)].shift_date = sh.shift_date
           /\ held[Len(held)].start_m = sh.s_m
           /\ held[Len(held)].end_m = sh.e_m

(***************************************************************************)
(* C34: in every state of a v2 run no shift of the demand has more         *)
(* assignments in the working schedule than its required_count, every      *)
(* assignment is of a shift of the demand, and no employee holds the same  *)
(* shift twice; the same holds of the rows the run finally writes.         *)
(***************************************************************************)
RowsWritten(row) ==
  {i \in 1..Len(scheduled_rows) :
     /\ scheduled_rows[i].shift_date = row.shift_date
     /\ scheduled_rows[i].label = row.label
     /\ scheduled_rows[i].start_time = row.start_time
     /\ scheduled_rows[i].end_time = row.end_time}

DemandShift(row) == <<row.shift_date, row.label, ToMinutes(row.start_time), ToMinutes(row.end_time)>>

C34_NoOverStaffing ==
  generator_version = "v2" =>
    /\ \A k \in 1..Len(demand) :
         /\ Headcount(scheduled_shifts, DemandShift(demand[k])) <= demand[k].required_count
         /\ Cardinality(RowsWritten(demand[k])) <= demand[k].required_count
    /\ \A i \in 1..Len(scheduled_shifts) :
         /\ \E k \in 1..Len(demand) : ShiftOf(scheduled_shifts[i]) = DemandShift(demand[k])
         /\ \A j \in 1..Len(scheduled_shifts) :
              (i # j /\ scheduled_shifts[i].eid = scheduled_shifts[j].eid) =>
                ShiftOf(scheduled_shifts[i]) # ShiftOf(scheduled_shifts[j])
    /\ \A i, j \in 1..Len(scheduled_rows) :
         (i # j /\ scheduled_rows[i].employee_id = scheduled_rows[j].employee_id) =>
           \/ scheduled_rows[i].shift_date # scheduled_rows[j].shift_date
           \/ scheduled_rows[i].label # scheduled_rows[j].label
           \/ scheduled_rows[i].start_time # scheduled_rows[j].start_time
           \/ scheduled_rows[i].end_time # scheduled_rows[j].end_time

\* the rows are written, and a shift that the greedy builder left short of its
\* required_count has been filled up to it by a later pass
C34_Witness ==
  /\ generator_version = "v2"
  /\ pc = "done"
  /\ \E k \in 1..Len(demand) :
       /\ audit_shift[ShiftKey(demand[k])].assigned_count < demand[k].required_count
       /\ Cardinality(RowsWritten(demand[k])) = demand[k].required_count

(***************************************************************************)
(* C35: when the rows of a v2 run are written, the audit record of every   *)
(* shift has as assigned_count the number of rows written for that shift,  *)
(* and as missing_count the required_count minus that number.              *)
(***************************************************************************)
C35_AuditAgrees ==
  (generator_version = "v2" /\ pc = "done") =>
    \A k \in 1..Len(demand) :
      LET record  == audit_shift[ShiftKey(demand[k])]
          written == Cardinality(RowsWritten(demand[k]))
      IN  /\ record.assigned_count = written
          /\ record.missing_count = demand[k].required_count - written

(***************************************************************************)
(* C36: in every state of a v2 run no employee holds both a shift on a     *)
(* Saturday and a shift on a Sunday (day_of_week 6 and 0 of the demand     *)
(* rows), in the working schedule and in the rows written.                 *)
(***************************************************************************)
C36_OneWeekendDay ==
  generator_version = "v2" =>
    /\ \A i, j \in 1..Len(scheduled_shifts) :
         scheduled_shifts[i].eid = scheduled_shifts[j].eid =>
           ~(scheduled_shifts[i].dow = 6 /\ scheduled_shifts[j].dow = 0)
    /\ \A i, j \in 1..Len(scheduled_rows) :
         scheduled_rows[i].employee_id = scheduled_rows[j].employee_id =>
           ~(scheduled_rows[i].day_of_week = 6 /\ scheduled_rows[j].day_of_week = 0)

(***************************************************************************)
(* C37: whenever the greedy builder scores a valid candidate whose         *)
(* assignment would leave the employee with a "close" shift on a date d    *)
(* and an "open" shift on d + 1, the reasons of the score contain          *)
(* creates_clopen, whichever of the two shifts is the candidate.           *)
(***************************************************************************)
LeavesClopen(held, row) ==
  LET row_type == GetShiftType(row.label, ToMinutes(row.start_time), ToMinutes(row.end_time))
  IN  \E i \in 1..Len(held) :
        LET held_type == GetShiftType(held[i].label, held[i].start_m, held[i].end_m)
        IN  \/ held_type = "close" /\ row_type = "open" /\ held[i].shift_date + 1 = row.shift_date
            \/ row_type = "close" /\ held_type = "open" /\ row.shift_date + 1 = held[i].shift_date

C37_ClopenPenalty ==
  (generator_version = "v2" /\ pc = "greedy" /\ loop.i <= Len(demand_sorted)) =>
    \A eid \in SeqToSet(employees) :
      LET row == demand_sorted[loop.i]
      IN  (RowValid(Tracking, eid, row) /\ LeavesClopen(assigned_shifts_by_emp[eid], row)) =>
            \E k \in 1..Len(RowScore(Tracking, eid, row).reasons) :
              RowScore(Tracking, eid, row).reasons[k] = "creates_clopen"

(***************************************************************************)
(* C38: in a v1 run no employee is assigned two shifts on the same date;   *)
(* an employee who was picked for a shift of a date is ineligible, with    *)
(* first reason already_assigned_that_day, for every shift of that date    *)
(* processed later; and the candidate audit row of a processed shift has   *)
(* selected = TRUE exactly for the employees picked for it.                *)
(***************************************************************************)
V1PickedFor(row, eid) ==
  \E i \in 1..Len(scheduled_rows) :
    /\ scheduled_rows[i].employee_id = eid
    /\ scheduled_rows[i].shift_date = row.shift_date
    /\ scheduled_rows[i].label = row.label
    /\ scheduled_rows[i].start_time = row.start_time
    /\ scheduled_rows[i].end_time = row.end_time

V1Processed == IF pc = "main_loop" THEN loop.i - 1 ELSE Len(demand)

C38_V1OneShiftPerDay ==
  generator_version = "v1" =>
    /\ \A i, j \in 1..Len(scheduled_rows) :
         (i # j /\ scheduled_rows[i].employee_id = scheduled_rows[j].employee_id) =>
           scheduled_rows[i].shift_date # scheduled_rows[j].shift_date
    /\ \A k \in 1..V1Processed : \A eid \in SeqToSet(employees) :
         LET record == audit_candidate[<<demand[k].shift_date, demand[k].label,
                                         demand[k].start_time, demand[k].end_time, eid>>]
         IN  /\ record.selected = V1PickedFor(demand[k], eid)
             /\ (\E j \in 1..(k - 1) : /\ demand[j].shift_date = demand[k].shift_date
                                       /\ V1PickedFor(demand[j], eid)) =>
                  /\ record.eligible = FALSE
                  /\ record.rejection_reason = "already_assigned_that_day"
                  /\ record.reasons[1] = "already_assigned_that_day"

\* the loop has ended: an employee picked for a shift has been refused for a
\* later shift of the same date, which went to somebody else
C38_Witness ==
  /\ generator_version = "v1"
  /\ pc # "main_loop"
  /\ \E j, k \in 1..Len(demand) : \E eid, other_eid \in SeqToSet(employees) :
       /\ j < k
       /\ demand[j].shift_date = demand[k].shift_date
       /\ V1PickedFor(demand[j], eid)
       /\ V1PickedFor(demand[k], other_eid)
       /\ audit_candidate[<<demand[k].shift_date, demand[k].label, demand[k].start_time,
                            demand[k].end_time, eid>>].rejection_reason = "already_assigned_that_day"
=========================================================================
